---- MODULE Spec2Model ----
(***************************************************************************)
(* Model of the Taskmaster long-horizon runner, SkillRunService            *)
(* (packages/tm-core/src/modules/skill-run/services/skill-run.service.ts). *)
(*                                                                         *)
(* Spec        the runner loop `run`, one action per awaited step          *)
(* SpecResolve resolveExecutionOutcome applied to every CodexExecResult    *)
(* SpecExtract extractTaskResult applied to bounded output buffers         *)
(* SpecExec    the timers and the termination path of executeCodex         *)
(* SpecCrash   run with the process dying at any point                     *)
(* SpecFaults  run with task-store calls and callbacks that throw          *)
(* SpecInit    initAssets called repeatedly on one project                 *)
(* SpecSetup   run from its first line: initAssets, loadCheckpoint, loop   *)
(* SpecTimed   executeCodex with a clock: when each timer is due           *)
(* SpecTimeouts the timeout options resolved by resolveTimeoutMs           *)
(* SpecOutput  executeCodex with the idle and hard timers disabled         *)
(* SpecPlan    toCsvRow and renderLiteCsv applied to one task              *)
(* SpecReap    SpecExec with the fairness of the event loop and the kernel *)
(* SpecRestart SpecCrash with run called again after a crash               *)
(* SpecLoop    run from an empty checkpoint, every awaited call returning  *)
(***************************************************************************)
EXTENDS Integers, Sequences, FiniteSets, TLC

(* ------------------------------------------------------------------ *)
(* Bounds of the model                                                 *)
(* ------------------------------------------------------------------ *)

\* executor invocations of one run that the model follows
MaxRuns == 4

\* lines of an output buffer handed to extractTaskResult
MaxLines == 2

\* chunks of output one child process delivers
MaxChunks == 2

\* calls of initAssets on one project
MaxInits == 2

\* waits of half a second between the events of one executeCodex call
MaxWaits == 2

(* ------------------------------------------------------------------ *)
(* Program constants                                                   *)
(* ------------------------------------------------------------------ *)

MAX_RETRIES_DEFAULT == 3
EXEC_IDLE_TIMEOUT_MS_DEFAULT == 1200000
FORCE_KILL_GRACE_MS == 5000
RESULT_TERMINATE_GRACE_MS == 1500
RESULT_PREFIX == "TM_RESULT:"
OUTPUT_BUFFER_MAX_CHARS == 200000

\* null / undefined of a nullable value; a present value v is <<v>>
Null == <<>>
Some(v) == <<v>>

\* the task ids of the task store
Tasks == {"1", "2"}

VARIABLES
    \* ---- run ----
    options,        \* SkillRunOptions of this call of run
    getNextPolicy,  \* behaviour of the injected tasksDomain.getNext
    storeTasks,     \* the ids of the tasks the store holds
    taskStatus,     \* the task store: task id -> external status
    loaded,         \* what loadCheckpoint returned when run started
    checkpoint,     \* the in-memory CheckpointState
    diskCheckpoint, \* the last checkpoint written in full to checkpoint.json
    checkpointFile, \* checkpoint.json: "missing", "complete" or "partial" (cut short)
    ledger,         \* the lines this run appended to ledger.jsonl
    plan,           \* the last projection written to TODO.csv
    totalRuns,
    nextTask,       \* the task of the current iteration (Null between iterations)
    execResult,     \* CodexExecResult of the current iteration
    result,         \* SkillRunResult once run has returned
    pc,             \* position of run
    statusWrites,   \* updateStatus calls issued, in order
    thrown          \* what made run reject or the process die (Null: nothing)

runVars == <<options, getNextPolicy, storeTasks, taskStatus, loaded, checkpoint,
             diskCheckpoint, checkpointFile, ledger, plan, totalRuns, nextTask,
             execResult, result, pc, statusWrites, thrown>>

    \* ---- a pure function of the service applied to one input ----
VARIABLES
    pf              \* [fn, arg, out]: the function, its argument, its result

    \* ---- executeCodex ----
VARIABLES
    ex              \* the closure of one executeCodex call and its child process

    \* ---- initAssets ----
VARIABLES
    assets          \* the files initAssets manages, its options and its calls

\* what the steps of a run in which nothing throws leave alone
offRun == <<pf, ex, thrown, assets>>

vars == <<runVars, pf, ex, assets>>

(* ------------------------------------------------------------------ *)
(* Pure helpers of the service                                         *)
(* ------------------------------------------------------------------ *)

Max(a, b) == IF a >= b THEN a ELSE b

Range(s) == {s[i] : i \in 1..Len(s)}

\* faulty variant: push without the includes test
pushUnique_Always(items, value) == Append(items, value)

\* items.includes(value) ? items : [...items, value]
pushUnique(items, value) ==
    IF value \in Range(items) THEN items ELSE Append(items, value)

\* items.filter((id) => id !== value)
filterOut(items, value) == SelectSeq(items, LAMBDA id : id # value)

\* Math.max(0, options.maxRetries ?? MAX_RETRIES_DEFAULT)
maxRetries ==
    Max(0, IF options.maxRetries = Null THEN MAX_RETRIES_DEFAULT
           ELSE options.maxRetries[1])

\* combineNotes: the defined, non-empty notes joined in order
combineNotes(notes) == SelectSeq(notes, LAMBDA n : n # Null)

\* the note both parsed-result branches build
parsedNote(parsed) ==
    combineNotes(<< <<"parsed_result", parsed.status, parsed.validation>>,
                    IF parsed.summary # "" THEN <<"summary", parsed.summary>>
                    ELSE Null >>)

\* faulty variant: the exit-code fallback tested before the parsed result and the timeout
resolveExecutionOutcome_ExitFirst(r) ==
    IF r.exitCode = Some(0)
    THEN [success |-> TRUE, note |-> << <<"exit_code_fallback">> >>]
    ELSE IF r.parsedResult # Null
    THEN [success |-> r.parsedResult[1].status = "done"
                       /\ r.parsedResult[1].validation # "fail",
          note |-> parsedNote(r.parsedResult[1])]
    ELSE [success |-> FALSE,
          note |-> << <<"executor_failed", r.exitCode, r.signal>> >>]

\* resolveExecutionOutcome(execResult): ExecutionOutcome
resolveExecutionOutcome(r) ==
    IF r.parsedResult # Null
    THEN LET parsed == r.parsedResult[1] IN
         IF parsed.status = "done" /\ parsed.validation # "fail"
         THEN [success |-> TRUE, note |-> parsedNote(parsed)]
         ELSE [success |-> FALSE, note |-> parsedNote(parsed)]
    ELSE IF r.timedOut
    THEN [success |-> FALSE,
          note |-> << <<"executor_timeout",
                        IF r.timeoutKind = Null THEN "unknown" ELSE r.timeoutKind[1],
                        r.timeoutMs>> >>]
    ELSE IF r.exitCode = Some(0)
    THEN [success |-> TRUE, note |-> << <<"exit_code_fallback">> >>]
    ELSE [success |-> FALSE,
          note |-> << <<"executor_failed", r.exitCode, r.signal>> >>]

\* faulty variant: the store's status is looked at before the checkpoint
mapStatus_StoreFirst(status, cp, taskId) ==
    IF status \in {"done", "completed"} THEN "DONE"
    ELSE IF status = "in-progress" THEN "IN_PROGRESS"
    ELSE IF status \in {"blocked", "cancelled", "deferred"} THEN "FAILED"
    ELSE IF taskId \in Range(cp.doneTaskIds) THEN "DONE"
    ELSE IF taskId \in Range(cp.blockedTaskIds) THEN "FAILED"
    ELSE "TODO"

\* mapStatus(status, checkpoint, taskId): the plan's status column
mapStatus(status, cp, taskId) ==
    IF taskId \in Range(cp.doneTaskIds) THEN "DONE"
    ELSE IF taskId \in Range(cp.blockedTaskIds) THEN "FAILED"
    ELSE IF status \in {"done", "completed"} THEN "DONE"
    ELSE IF status = "in-progress" THEN "IN_PROGRESS"
    ELSE IF status \in {"blocked", "cancelled", "deferred"} THEN "FAILED"
    ELSE "TODO"

\* toCsvRow for one task of tasksDomain.list
toCsvRow(status, taskId, cp) ==
    [status |-> mapStatus(status, cp, taskId),
     retryCount |-> cp.attempts[taskId],
     notes |-> IF taskId \in Range(cp.blockedTaskIds)
               THEN "blocked by retry limit" ELSE ""]

\* the rows syncTodoAndMap writes, from the store's list and the checkpoint
projectPlan(list, statuses, cp) == [t \in list |-> toCsvRow(statuses[t], t, cp)]

(* ------------------------------------------------------------------ *)
(* run: the state the loop starts from                                 *)
(* ------------------------------------------------------------------ *)

\* loadCheckpoint on a missing file
EmptyCheckpoint ==
    [attempts |-> [t \in Tasks |-> 0], doneTaskIds |-> <<>>,
     blockedTaskIds |-> <<>>, lastTaskId |-> Null]

\* checkpoints an earlier run of the session left in checkpoint.json
LoadedCheckpoints ==
    { EmptyCheckpoint,
      [attempts |-> [t \in Tasks |-> IF t = "1" THEN 1 ELSE 0],
       doneTaskIds |-> <<"1">>, blockedTaskIds |-> <<>>, lastTaskId |-> Some("1")],
      [attempts |-> [t \in Tasks |-> IF t = "1" THEN 1 ELSE 0],
       doneTaskIds |-> <<>>, blockedTaskIds |-> <<"1">>, lastTaskId |-> Some("1")] }

\* the status the runner left in the store for the tasks of a checkpoint
StoreStatusOf(cp) ==
    [t \in Tasks |-> IF t \in Range(cp.doneTaskIds) THEN "done"
                     ELSE IF t \in Range(cp.blockedTaskIds) THEN "blocked"
                     ELSE "pending"]

\* the option values the model runs with (maxTasks 0: falsy, no cap)
RunOptions ==
    [maxRetries : {Null, Some(-1), Some(0), Some(1), Some(2)},
     continueOnFailure : BOOLEAN,
     maxTasks : {0, 1, 2}]

\* the CodexExecResults the mocked or real executor hands to the loop
RunExecResults ==
    { [exitCode |-> Some(0), signal |-> Null, timedOut |-> FALSE,
       timeoutKind |-> Null, timeoutMs |-> Null, parsedResult |-> Null],
      [exitCode |-> Some(1), signal |-> Null, timedOut |-> FALSE,
       timeoutKind |-> Null, timeoutMs |-> Null, parsedResult |-> Null],
      [exitCode |-> Null, signal |-> Some("SIGTERM"), timedOut |-> TRUE,
       timeoutKind |-> Some("hard"), timeoutMs |-> Some(5000), parsedResult |-> Null] }

NoExecResult == Null
NoResult == Null

InitRun ==
    /\ options \in RunOptions
    /\ getNextPolicy \in {"eligible", "any"}
    /\ storeTasks \in {{"1"}, Tasks}
    /\ loaded \in LoadedCheckpoints
    /\ checkpoint = loaded
    /\ diskCheckpoint = checkpoint
    /\ checkpointFile = IF loaded = EmptyCheckpoint THEN "missing" ELSE "complete"
    /\ taskStatus = StoreStatusOf(checkpoint)
    /\ plan = projectPlan(storeTasks, taskStatus, checkpoint)
    /\ ledger = <<>>
    /\ totalRuns = 0
    /\ nextTask = Null
    /\ execResult = NoExecResult
    /\ result = NoResult
    /\ statusWrites = <<>>
    /\ thrown = Null
    /\ pc = "getNext"

(* ------------------------------------------------------------------ *)
(* run: one action per awaited step of the loop                        *)
(* ------------------------------------------------------------------ *)

\* what tasksDomain.getNext may answer: under "eligible" a task whose status is
\* pending or in-progress, none when there is no such task; under "any" (a
\* mocked or externally edited store) any task or none
Eligible == {t \in storeTasks : taskStatus[t] \in {"pending", "in-progress"}}

GetNextAnswers ==
    IF getNextPolicy = "eligible"
    THEN IF Eligible = {} THEN {Null} ELSE {Some(t) : t \in Eligible}
    ELSE {Null} \cup {Some(t) : t \in storeTasks}

\* tasksDomain.updateStatus(taskId, status)
updateStatus(taskId, status) ==
    /\ taskStatus' = [taskStatus EXCEPT ![taskId] = status]
    /\ statusWrites' = Append(statusWrites, <<taskId, status>>)

\* faulty variant: the loop stops one attempt late
maxTasksReached_Late == options.maxTasks # 0 /\ totalRuns > options.maxTasks

\* options.maxTasks && totalRuns >= options.maxTasks
maxTasksReached == options.maxTasks # 0 /\ totalRuns >= options.maxTasks

\* faulty variant: the loop may be left whatever getNext answered
BreakLoop_AnyTime ==
    /\ pc = "getNext"
    /\ pc' = "save_final"
    /\ UNCHANGED <<offRun, loaded, options, getNextPolicy, storeTasks, taskStatus, checkpoint, diskCheckpoint, checkpointFile,
                   ledger, plan, totalRuns, nextTask, execResult, result,
                   statusWrites>>

\* getNext answered none, or maxTasks is set and reached: leave the loop
BreakLoop ==
    /\ pc = "getNext"
    /\ \E answer \in GetNextAnswers :
          \/ answer = Null
          \/ answer # Null /\ maxTasksReached
    /\ pc' = "save_final"
    /\ UNCHANGED <<offRun, loaded, options, getNextPolicy, storeTasks, taskStatus, checkpoint, diskCheckpoint, checkpointFile,
                   ledger, plan, totalRuns, nextTask, execResult, result,
                   statusWrites>>

\* faulty variant: the attempt is not counted
nextAttempt_NotCounted(cp, id) == cp.attempts[id]

\* faulty variant: the attempt is counted twice
nextAttempt_Twice(cp, id) == cp.attempts[id] + 2

\* (checkpoint.attempts[taskId] ?? 0) + 1
nextAttempt(cp, id) == cp.attempts[id] + 1

\* getNext answered a task: count the attempt, record lastTaskId, write in-progress
StartAttempt ==
    /\ pc = "getNext"
    /\ totalRuns < MaxRuns
    /\ \E answer \in GetNextAnswers :
          /\ answer # Null
          /\ ~maxTasksReached
          /\ LET taskId == answer[1]
                 attempt == nextAttempt(checkpoint, taskId)
             IN /\ checkpoint' = [checkpoint EXCEPT !.attempts[taskId] = attempt,
                                                    !.lastTaskId = Some(taskId)]
                /\ nextTask' = Some(taskId)
                /\ updateStatus(taskId, "in-progress")
    /\ pc' = "exec"
    /\ UNCHANGED <<offRun, loaded, options, getNextPolicy, storeTasks, diskCheckpoint, checkpointFile, ledger, plan, totalRuns,
                   execResult, result>>

\* executeCodex resolved with r
ExecuteCodex ==
    /\ pc = "exec"
    /\ \E r \in RunExecResults : execResult' = Some(r)
    /\ totalRuns' = totalRuns + 1
    /\ pc' = "status"
    /\ UNCHANGED <<offRun, loaded, options, getNextPolicy, storeTasks, taskStatus, checkpoint, diskCheckpoint, checkpointFile,
                   ledger, plan, nextTask, result, statusWrites>>

taskId == nextTask[1]
attempt == checkpoint.attempts[taskId]
outcome == resolveExecutionOutcome(execResult[1])
\* faulty variant: the limit compared with >=
reachedLimit_AtLimit == attempt >= maxRetries

\* faulty variant: the retry limit is never reached
reachedLimit_Never == FALSE

reachedLimit == attempt > maxRetries

\* faulty variant: the success branch without its status write
MarkDone_NoStatusWrite ==
    /\ UNCHANGED <<taskStatus, statusWrites>>
    /\ checkpoint' = [checkpoint EXCEPT
                        !.doneTaskIds = pushUnique(checkpoint.doneTaskIds, taskId),
                        !.blockedTaskIds = filterOut(checkpoint.blockedTaskIds, taskId)]

\* the success branch up to the ledger append
MarkDone ==
    /\ updateStatus(taskId, "done")
    /\ checkpoint' = [checkpoint EXCEPT
                        !.doneTaskIds = pushUnique(checkpoint.doneTaskIds, taskId),
                        !.blockedTaskIds = filterOut(checkpoint.blockedTaskIds, taskId)]

\* faulty variant: a failed attempt always puts the task back to pending
MarkFailed_AlwaysPending ==
    /\ updateStatus(taskId, "pending")
    /\ checkpoint' = IF reachedLimit
                     THEN [checkpoint EXCEPT
                        !.blockedTaskIds = pushUnique(checkpoint.blockedTaskIds, taskId)]
                     ELSE checkpoint

\* the failure branch up to the ledger append
MarkFailed ==
    IF reachedLimit
    THEN /\ updateStatus(taskId, "blocked")
         /\ checkpoint' = [checkpoint EXCEPT
                        !.blockedTaskIds = pushUnique(checkpoint.blockedTaskIds, taskId)]
    ELSE /\ updateStatus(taskId, "pending")
         /\ checkpoint' = checkpoint

\* the status write and the checkpoint mutation that follow the classification
ApplyOutcome ==
    /\ pc = "status"
    /\ IF outcome.success THEN MarkDone ELSE MarkFailed
    /\ pc' = "ledger"
    /\ UNCHANGED <<offRun, loaded, options, getNextPolicy, storeTasks, diskCheckpoint, checkpointFile, ledger, plan, totalRuns,
                   nextTask, execResult, result>>

\* the status column of the ledger entry of this attempt
ledgerStatus ==
    IF outcome.success THEN "DONE"
    ELSE IF reachedLimit THEN "BLOCKED" ELSE "FAILED"

ledgerNotes ==
    IF outcome.success THEN outcome.note
    ELSE combineNotes(outcome.note \o
            << IF reachedLimit THEN <<"max retries reached", maxRetries>>
               ELSE <<"will retry">> >>)

\* faulty variant: every failed attempt takes the early return
afterLedger_IgnoreContinue ==
    IF ~outcome.success THEN "save_error" ELSE "save_loop"

\* faulty variant: the loop goes on without saving the checkpoint
afterLedger_SkipSave ==
    IF ~outcome.success /\ ~options.continueOnFailure
    THEN "save_error" ELSE "sync_loop"

\* where run goes after the ledger append and onTaskEnd
afterLedger ==
    IF ~outcome.success /\ ~options.continueOnFailure
    THEN "save_error" ELSE "save_loop"

\* the LedgerEntry of this attempt
ledgerEntry ==
    [taskId |-> taskId, attempt |-> attempt, status |-> ledgerStatus,
     exitCode |-> execResult[1].exitCode, notes |-> ledgerNotes]

\* faulty variant: the file is written, not appended to
appendLedger_Overwrite(file, entry) == <<entry>>

\* appendLedger(file, entry): appendFile of one line
appendLedger(file, entry) == Append(file, entry)

\* appendLedger; a failed attempt without continueOnFailure heads for the early return
AppendLedger ==
    /\ pc = "ledger"
    /\ ledger' = appendLedger(ledger, ledgerEntry)
    /\ pc' = afterLedger
    /\ UNCHANGED <<offRun, loaded, options, getNextPolicy, storeTasks, taskStatus, checkpoint, diskCheckpoint, checkpointFile,
                   plan, totalRuns, nextTask, execResult, result, statusWrites>>

\* saveCheckpoint at any of its three call sites
SaveCheckpoint ==
    /\ pc \in {"save_error", "save_loop", "save_final"}
    /\ diskCheckpoint' = checkpoint
    /\ checkpointFile' = "complete"
    /\ pc' = CASE pc = "save_error" -> "sync_error"
               [] pc = "save_loop" -> "sync_loop"
               [] pc = "save_final" -> "sync_final"
    /\ UNCHANGED <<offRun, loaded, options, getNextPolicy, storeTasks, taskStatus, checkpoint, ledger, plan,
                   totalRuns, nextTask, execResult, result, statusWrites>>

\* faulty variant: the early return classified like the end of the loop
ErrorResult_AsFinal ==
    [completedTaskIds |-> checkpoint.doneTaskIds,
     blockedTaskIds |-> checkpoint.blockedTaskIds,
     attempts |-> checkpoint.attempts,
     totalRuns |-> totalRuns,
     finalStatus |-> IF Len(checkpoint.blockedTaskIds) > 0
                     THEN "partial" ELSE "all_complete",
     errorMessage |-> Null]

\* the SkillRunResult of the early return
ErrorResult ==
    [completedTaskIds |-> checkpoint.doneTaskIds,
     blockedTaskIds |-> checkpoint.blockedTaskIds,
     attempts |-> checkpoint.attempts,
     totalRuns |-> totalRuns,
     finalStatus |-> "error",
     errorMessage |-> Some(<<"Task", taskId, "failed", "and",
                             "continueOnFailure=false">>)]

\* faulty variant: the loop exit ignores the blocked set
FinalResult_AlwaysComplete ==
    [completedTaskIds |-> checkpoint.doneTaskIds,
     blockedTaskIds |-> checkpoint.blockedTaskIds,
     attempts |-> checkpoint.attempts,
     totalRuns |-> totalRuns,
     finalStatus |-> "all_complete",
     errorMessage |-> Null]

\* the SkillRunResult after the loop
FinalResult ==
    [completedTaskIds |-> checkpoint.doneTaskIds,
     blockedTaskIds |-> checkpoint.blockedTaskIds,
     attempts |-> checkpoint.attempts,
     totalRuns |-> totalRuns,
     finalStatus |-> IF Len(checkpoint.blockedTaskIds) > 0
                     THEN "partial" ELSE "all_complete",
     errorMessage |-> Null]

\* faulty variant: the loop iterates without writing the plan again
SyncLoop_StalePlan ==
    /\ pc = "sync_loop"
    /\ nextTask' = Null
    /\ execResult' = NoExecResult
    /\ pc' = "getNext"
    /\ UNCHANGED <<offRun, loaded, options, getNextPolicy, storeTasks, taskStatus, checkpoint, diskCheckpoint, checkpointFile,
                   ledger, plan, totalRuns, result, statusWrites>>

\* syncTodoAndMap inside the loop, then the next iteration
SyncLoop ==
    /\ pc = "sync_loop"
    /\ plan' = projectPlan(storeTasks, taskStatus, checkpoint)
    /\ nextTask' = Null
    /\ execResult' = NoExecResult
    /\ pc' = "getNext"
    /\ UNCHANGED <<offRun, loaded, options, getNextPolicy, storeTasks, taskStatus, checkpoint, diskCheckpoint, checkpointFile,
                   ledger, totalRuns, result, statusWrites>>

\* syncTodoAndMap of the early return, then return
SyncError ==
    /\ pc = "sync_error"
    /\ plan' = projectPlan(storeTasks, taskStatus, checkpoint)
    /\ result' = Some(ErrorResult)
    /\ pc' = "returned"
    /\ UNCHANGED <<offRun, loaded, options, getNextPolicy, storeTasks, taskStatus, checkpoint, diskCheckpoint, checkpointFile,
                   ledger, totalRuns, nextTask, execResult, statusWrites>>

\* syncTodoAndMap after the loop, then return
SyncFinal ==
    /\ pc = "sync_final"
    /\ plan' = projectPlan(storeTasks, taskStatus, checkpoint)
    /\ result' = Some(FinalResult)
    /\ pc' = "returned"
    /\ UNCHANGED <<offRun, loaded, options, getNextPolicy, storeTasks, taskStatus, checkpoint, diskCheckpoint, checkpointFile,
                   ledger, totalRuns, nextTask, execResult, statusWrites>>

RunNext ==
    \/ BreakLoop
    \/ StartAttempt
    \/ ExecuteCodex
    \/ ApplyOutcome
    \/ AppendLedger
    \/ SaveCheckpoint
    \/ SyncLoop
    \/ SyncError
    \/ SyncFinal

\* no pure-function application in flight
PfIdle == [fn |-> "none", arg |-> Null, out |-> Null]

\* no executeCodex call in flight
ExIdle ==
    [options |-> [execIdleTimeoutMs |-> Null, execHardTimeoutMs |-> Null,
                  execTimeoutMs |-> Null, terminateOnResult |-> Null],
     child |-> "none", signalable |-> TRUE, killed |-> FALSE, exitCode |-> Null, signalCode |-> Null,
     delivered |-> {}, idleTimeoutMs |-> Null, hardTimeoutMs |-> Null,
     idleTimer |-> "null", hardTimer |-> "null", closeTimer |-> "null",
     leakedCloseTimers |-> 0, resultTimer |-> "null",
     timedOut |-> FALSE, timeoutKind |-> Null, timeoutMs |-> Null,
     outputBuffer |-> <<>>, parsedResult |-> Null, log |-> <<>>, outEnded |-> FALSE,
     signals |-> <<>>, chunks |-> 0, graceExpired |-> FALSE, resolved |-> Null,
     now |-> Null, waits |-> 0, idleDue |-> Null, hardDue |-> Null, resultDue |-> Null,
     closeDue |-> Null, lastActivityAt |-> Null, detectedAt |-> Null]

\* no call of initAssets under observation
AssetsIdle ==
    [files |-> <<>>, options |-> [mode |-> Null, agentsMode |-> Null],
     disableRemote |-> TRUE, calls |-> <<>>]

Init == InitRun /\ pf = PfIdle /\ ex = ExIdle /\ assets = AssetsIdle

Next == RunNext

Spec == Init /\ [][Next]_vars

(* ------------------------------------------------------------------ *)
(* SpecLoop: run from an empty checkpoint with a store that offers the *)
(* tasks whose status is pending or in-progress, every awaited call    *)
(* returning. The runs are those that MaxRuns lets come to their end.  *)
(* ------------------------------------------------------------------ *)

InitLoop ==
    /\ Init
    /\ getNextPolicy = "eligible"
    /\ loaded = EmptyCheckpoint
    /\ (maxRetries + 1) * Cardinality(storeTasks) <= MaxRuns

SpecLoop == InitLoop /\ [][RunNext]_vars /\ WF_vars(RunNext)

(* ------------------------------------------------------------------ *)
(* SpecCrash: run with writeFile in its two steps, and the process     *)
(* dying at any point                                                  *)
(* ------------------------------------------------------------------ *)

\* saveCheckpoint, first half: writeFile opens checkpoint.json with flag 'w',
\* which cuts the file to length 0 before any byte of the new content is there
SaveOpen ==
    /\ pc \in {"save_error", "save_loop", "save_final"}
    /\ checkpointFile' = "partial"
    /\ pc' = CASE pc = "save_error" -> "write_error"
               [] pc = "save_loop" -> "write_loop"
               [] pc = "save_final" -> "write_final"
    /\ UNCHANGED <<offRun, loaded, options, getNextPolicy, storeTasks, taskStatus,
                   checkpoint, diskCheckpoint, ledger, plan, totalRuns, nextTask,
                   execResult, result, statusWrites>>

\* saveCheckpoint, second half: the content is written and writeFile resolves
SaveWrite ==
    /\ pc \in {"write_error", "write_loop", "write_final"}
    /\ diskCheckpoint' = checkpoint
    /\ checkpointFile' = "complete"
    /\ pc' = CASE pc = "write_error" -> "sync_error"
               [] pc = "write_loop" -> "sync_loop"
               [] pc = "write_final" -> "sync_final"
    /\ UNCHANGED <<offRun, loaded, options, getNextPolicy, storeTasks, taskStatus,
                   checkpoint, ledger, plan, totalRuns, nextTask, execResult, result,
                   statusWrites>>

\* the runner process is killed or the machine stops
Crash ==
    /\ pc \notin {"returned", "crashed"}
    /\ pc' = "crashed"
    /\ UNCHANGED <<offRun, loaded, options, getNextPolicy, storeTasks, taskStatus,
                   checkpoint, diskCheckpoint, checkpointFile, ledger, plan, totalRuns,
                   nextTask, execResult, result, statusWrites>>

CrashNext ==
    \/ BreakLoop
    \/ StartAttempt
    \/ ExecuteCodex
    \/ ApplyOutcome
    \/ AppendLedger
    \/ SaveOpen
    \/ SaveWrite
    \/ SyncLoop
    \/ SyncError
    \/ SyncFinal
    \/ Crash

SpecCrash == Init /\ [][CrashNext]_vars

(* ------------------------------------------------------------------ *)
(* SpecRestart: SpecCrash with run called again on the same session    *)
(* directory after a crash. The ledger and the per-attempt log files   *)
(* are opened for appending: what an earlier run wrote stays.          *)
(* ------------------------------------------------------------------ *)

\* run is called again while the ledger has fewer entries than this
MaxLogged == 2

InitRestart ==
    /\ Init
    /\ storeTasks = {"1"}
    /\ loaded = EmptyCheckpoint
    /\ getNextPolicy = "eligible"
    /\ options.maxTasks = 0
    /\ options.maxRetries \in {Null, Some(1)}

\* run called again: loadCheckpoint reads what the last completed save left
\* (JSON.parse throws on a file cut short), totalRuns starts at 0 and
\* syncTodoAndMap writes the plan before the loop
Restart ==
    /\ pc = "crashed"
    /\ checkpointFile # "partial"
    /\ Len(ledger) < MaxLogged
    /\ loaded' = diskCheckpoint
    /\ checkpoint' = diskCheckpoint
    /\ plan' = projectPlan(storeTasks, taskStatus, diskCheckpoint)
    /\ totalRuns' = 0
    /\ nextTask' = Null
    /\ execResult' = NoExecResult
    /\ result' = NoResult
    /\ statusWrites' = <<>>
    /\ pc' = "getNext"
    /\ UNCHANGED <<offRun, options, getNextPolicy, storeTasks, taskStatus, diskCheckpoint,
                   checkpointFile, ledger>>

RestartNext ==
    \/ CrashNext
    \/ Restart

SpecRestart == InitRestart /\ [][RestartNext]_vars

(* ------------------------------------------------------------------ *)
(* SpecFaults: run with task-store calls and observer callbacks that   *)
(* throw. run has no try/catch: an exception in an awaited call or in  *)
(* a callback it calls rejects its promise ("rejected"); an exception  *)
(* in a callback called from a stream or timer handler of executeCodex *)
(* is uncaught and ends the process ("crashed").                       *)
(* ------------------------------------------------------------------ *)

\* tasksDomain.getNext rejects
GetNextThrows ==
    /\ pc = "getNext"
    /\ thrown' = Some(<<"store", "getNext">>)
    /\ pc' = "rejected"
    /\ UNCHANGED <<pf, ex, assets, loaded, options, getNextPolicy, storeTasks, taskStatus,
                   checkpoint, diskCheckpoint, checkpointFile, ledger, plan, totalRuns,
                   nextTask, execResult, result, statusWrites>>

\* the iteration starts, the attempt is counted, and updateStatus(in-progress)
\* rejects (how = "store") or onTaskStart throws after the status write
\* (how = "callback")
StartThrows ==
    /\ pc = "getNext"
    /\ totalRuns < MaxRuns
    /\ \E answer \in GetNextAnswers, how \in {"store", "callback"} :
          /\ answer # Null
          /\ ~maxTasksReached
          /\ checkpoint' = [checkpoint EXCEPT
                               !.attempts[answer[1]] = nextAttempt(checkpoint, answer[1]),
                               !.lastTaskId = answer]
          /\ nextTask' = answer
          /\ IF how = "store"
             THEN /\ UNCHANGED <<taskStatus, statusWrites>>
                  /\ thrown' = Some(<<"store", "updateStatus">>)
             ELSE /\ updateStatus(answer[1], "in-progress")
                  /\ thrown' = Some(<<"callback", "onTaskStart">>)
    /\ pc' = "rejected"
    /\ UNCHANGED <<pf, ex, assets, loaded, options, getNextPolicy, storeTasks, diskCheckpoint,
                   checkpointFile, ledger, plan, totalRuns, execResult, result>>

\* onStdout, onStderr, onInfo or onWarning throws inside a handler of executeCodex
ExecCallbackThrows ==
    /\ pc = "exec"
    /\ \E callback \in {"onStdout", "onStderr", "onInfo", "onWarning"} :
          thrown' = Some(<<"callback", callback>>)
    /\ pc' = "crashed"
    /\ UNCHANGED <<pf, ex, assets, loaded, options, getNextPolicy, storeTasks, taskStatus,
                   checkpoint, diskCheckpoint, checkpointFile, ledger, plan, totalRuns,
                   nextTask, execResult, result, statusWrites>>

\* updateStatus(done | blocked | pending) rejects, before the checkpoint is touched
OutcomeStatusThrows ==
    /\ pc = "status"
    /\ thrown' = Some(<<"store", "updateStatus">>)
    /\ pc' = "rejected"
    /\ UNCHANGED <<pf, ex, assets, loaded, options, getNextPolicy, storeTasks, taskStatus,
                   checkpoint, diskCheckpoint, checkpointFile, ledger, plan, totalRuns,
                   nextTask, execResult, result, statusWrites>>

\* the ledger entry is appended and onTaskEnd throws
OnTaskEndThrows ==
    /\ pc = "ledger"
    /\ ledger' = appendLedger(ledger, ledgerEntry)
    /\ thrown' = Some(<<"callback", "onTaskEnd">>)
    /\ pc' = "rejected"
    /\ UNCHANGED <<pf, ex, assets, loaded, options, getNextPolicy, storeTasks, taskStatus,
                   checkpoint, diskCheckpoint, checkpointFile, plan, totalRuns, nextTask,
                   execResult, result, statusWrites>>

\* tasksDomain.list rejects inside syncTodoAndMap, after the checkpoint was saved
ListThrows ==
    /\ pc \in {"sync_loop", "sync_error", "sync_final"}
    /\ thrown' = Some(<<"store", "list">>)
    /\ pc' = "rejected"
    /\ UNCHANGED <<pf, ex, assets, loaded, options, getNextPolicy, storeTasks, taskStatus,
                   checkpoint, diskCheckpoint, checkpointFile, ledger, plan, totalRuns,
                   nextTask, execResult, result, statusWrites>>

FaultsNext ==
    \/ BreakLoop
    \/ StartAttempt
    \/ ExecuteCodex
    \/ ApplyOutcome
    \/ AppendLedger
    \/ SaveCheckpoint
    \/ SyncLoop
    \/ SyncError
    \/ SyncFinal
    \/ GetNextThrows
    \/ StartThrows
    \/ ExecCallbackThrows
    \/ OutcomeStatusThrows
    \/ OnTaskEndThrows
    \/ ListThrows

SpecFaults == Init /\ [][FaultsNext]_vars

(* ------------------------------------------------------------------ *)
(* run at rest, for the specifications that exercise one function      *)
(* ------------------------------------------------------------------ *)

RunIdle ==
    /\ options = [maxRetries |-> Null, continueOnFailure |-> FALSE, maxTasks |-> 0]
    /\ getNextPolicy = "eligible"
    /\ storeTasks = {}
    /\ loaded = EmptyCheckpoint
    /\ checkpoint = EmptyCheckpoint
    /\ diskCheckpoint = EmptyCheckpoint
    /\ checkpointFile = "missing"
    /\ taskStatus = StoreStatusOf(EmptyCheckpoint)
    /\ plan = projectPlan({}, taskStatus, EmptyCheckpoint)
    /\ ledger = <<>>
    /\ totalRuns = 0
    /\ nextTask = Null
    /\ execResult = NoExecResult
    /\ result = NoResult
    /\ statusWrites = <<>>
    /\ thrown = Null
    /\ pc = "idle"

(* ------------------------------------------------------------------ *)
(* SpecResolve: resolveExecutionOutcome on every CodexExecResult       *)
(* ------------------------------------------------------------------ *)

ParsedTaskResults ==
    [status : {"done", "failed"}, validation : {"pass", "fail", "unknown"},
     summary : {"", "ok"}, raw : {<<>>}]

AllExecResults ==
    { [exitCode |-> e, signal |-> IF e = Null THEN Some("SIGTERM") ELSE Null,
       timedOut |-> t, timeoutKind |-> k,
       timeoutMs |-> IF k = Null THEN Null ELSE Some(1000), parsedResult |-> p] :
      e \in {Null, Some(0), Some(1)}, t \in BOOLEAN,
      k \in {Null, Some("idle"), Some("hard")},
      p \in {Null} \cup {Some(x) : x \in ParsedTaskResults} }

InitResolve ==
    /\ RunIdle
    /\ pf \in {[fn |-> "resolveExecutionOutcome", arg |-> Some(r), out |-> Null] :
                 r \in AllExecResults}
    /\ ex = ExIdle
    /\ assets = AssetsIdle

ApplyResolve ==
    /\ pf.fn = "resolveExecutionOutcome"
    /\ pf.out = Null
    /\ pf' = [pf EXCEPT !.out = Some(resolveExecutionOutcome(pf.arg[1]))]
    /\ UNCHANGED <<runVars, ex, assets>>

SpecResolve == InitResolve /\ [][ApplyResolve]_vars

(* ------------------------------------------------------------------ *)
(* extractTaskResult                                                   *)
(*                                                                     *)
(* Output text is a sequence of tokens: the sentinel prefix, the bare  *)
(* word RESULT: (not preceded by TM_), braces, "key":value members of  *)
(* an object, other text, and the line separators \n and \r\n.         *)
(* Whitespace between tokens is not represented. An index is 1-based,  *)
(* 0 standing for the -1 of indexOf.                                   *)
(* ------------------------------------------------------------------ *)

NoVal == [type |-> "none", v |-> ""]
Undefined == [type |-> "undefined", v |-> ""]
JNull == [type |-> "null", v |-> ""]
Str(x) == [type |-> "string", v |-> x]
Num(x) == [type |-> "number", v |-> x]

Tok(t) == [t |-> t, key |-> "", val |-> NoVal]
Field(k, v) == [t |-> "field", key |-> k, val |-> v]

PREFIX == Tok(RESULT_PREFIX)
BARE == Tok("RESULT:")
LB == Tok("{")
RB == Tok("}")
TEXT == Tok("text")
NL == Tok("\n")
CRLF == Tok("\r\n")

MinOf(S) == CHOOSE x \in S : \A y \in S : x <= y
MaxOf(S) == CHOOSE x \in S : \A y \in S : x >= y

\* output.split(/\r?\n/)
SplitLines(output) ==
    LET seps == {i \in 1..Len(output) : output[i].t \in {"\n", "\r\n"}}
        lineOf(i) == Cardinality({j \in seps : j < i}) + 1
        line(k) == LET idx == {i \in 1..Len(output) : i \notin seps /\ lineOf(i) = k}
                   IN IF idx = {} THEN <<>>
                      ELSE SubSeq(output, MinOf(idx), MaxOf(idx))
    IN [k \in 1..(Cardinality(seps) + 1) |-> line(k)]

\* text.indexOf(t) and text.lastIndexOf(t)
indexOf(text, t) ==
    LET at == {i \in 1..Len(text) : text[i].t = t}
    IN IF at = {} THEN 0 ELSE MinOf(at)

lastIndexOf(text, t) ==
    LET at == {i \in 1..Len(text) : text[i].t = t}
    IN IF at = {} THEN 0 ELSE MaxOf(at)

\* String.prototype.toLowerCase on the strings of the model
toLowerCase(x) ==
    CASE x = "DONE" -> "done"
      [] x = "FAIL" -> "fail"
      [] OTHER -> x

\* String.prototype.trim on the strings of the model
trim(x) ==
    CASE x = " ok " -> "ok"
      [] OTHER -> x

\* JSON.parse(rawJson) succeeds: the text between the braces is members only
jsonParses(rawJson) == \A i \in 2..(Len(rawJson) - 1) : rawJson[i].t = "field"

\* parsed[key] of the parsed object, the last member of that name winning
member(rawJson, key) ==
    LET at == {i \in 2..(Len(rawJson) - 1) : rawJson[i].key = key}
    IN IF at = {} THEN Undefined ELSE rawJson[MaxOf(at)].val

\* value?.toLowerCase() throws a TypeError the catch turns into `continue`
lowerThrows(value) == value.type \notin {"string", "undefined", "null"}

\* value?.toLowerCase() when it does not throw
optLower(value) ==
    IF value.type = "string" THEN Str(toLowerCase(value.v)) ELSE Undefined

\* the body of the try block for one candidate rawJson: Null is `continue`
normalizeResult(rawJson) ==
    IF ~jsonParses(rawJson) THEN Null
    ELSE IF lowerThrows(member(rawJson, "status")) THEN Null
    ELSE LET status == optLower(member(rawJson, "status")) IN
    IF status # Str("done") /\ status # Str("failed") THEN Null
    ELSE IF lowerThrows(member(rawJson, "validation")) THEN Null
    ELSE LET validation == optLower(member(rawJson, "validation"))
             summary == member(rawJson, "summary")
         IN Some([status |-> status.v,
                  validation |-> IF validation \in {Str("pass"), Str("fail"), Str("unknown")}
                                 THEN validation.v ELSE "unknown",
                  summary |-> IF summary.type = "string" THEN trim(summary.v) ELSE "",
                  raw |-> rawJson])

\* one iteration of the backward scan: Null is `continue`
scanLine(line) ==
    LET prefixIndex == indexOf(line, RESULT_PREFIX) IN
    IF prefixIndex = 0 THEN Null
    ELSE LET payload == SubSeq(line, prefixIndex + 1, Len(line))
             jsonStart == indexOf(payload, "{")
             jsonEnd == lastIndexOf(payload, "}")
         IN IF jsonStart = 0 \/ jsonEnd = 0 \/ jsonEnd < jsonStart THEN Null
            ELSE normalizeResult(SubSeq(payload, jsonStart, jsonEnd))

RECURSIVE scanFrom(_, _)
scanFrom(lines, idx) ==
    IF idx = 0 THEN Null
    ELSE IF scanLine(lines[idx]) # Null THEN scanLine(lines[idx])
    ELSE scanFrom(lines, idx - 1)

\* extractTaskResult(output): ParsedTaskResult | null
extractTaskResult(output) ==
    LET lines == SplitLines(output) IN scanFrom(lines, Len(lines))

(* ------------------------------------------------------------------ *)
(* SpecExtract: extractTaskResult on bounded output buffers            *)
(* ------------------------------------------------------------------ *)

Obj(members) == <<LB>> \o members \o <<RB>>

StatusMembers ==
    { <<>>, <<Field("status", Str("done"))>>, <<Field("status", Str("DONE"))>>,
      <<Field("status", Str("failed"))>>, <<Field("status", Str("skipped"))>>,
      <<Field("status", Num("1"))>> }

ValidationMembers ==
    { <<>>, <<Field("validation", Str("pass"))>>, <<Field("validation", Str("FAIL"))>>,
      <<Field("validation", Str("maybe"))>>, <<Field("validation", Num("1"))>>,
      <<Field("validation", JNull)>> }

DoneObj == Obj(<<Field("status", Str("done")), Field("validation", Str("pass"))>>)

SampleLines ==
    { <<PREFIX>> \o Obj(st \o va) : st \in StatusMembers, va \in ValidationMembers }
    \cup
    { <<>>, <<TEXT>>, DoneObj, <<BARE>> \o DoneObj,
      <<TEXT, PREFIX>> \o DoneObj \o <<TEXT>>,
      <<PREFIX, LB, TEXT, RB>>, <<PREFIX, RB, LB>>, <<PREFIX, TEXT>>,
      <<PREFIX>> \o DoneObj \o DoneObj,
      <<PREFIX>> \o Obj(<<Field("status", Str("failed")),
                          Field("summary", Str(" ok "))>>),
      <<PREFIX>> \o Obj(<<Field("status", Str("failed")),
                          Field("status", Str("done")), Field("summary", Num("1"))>>) }

RECURSIVE joinLines(_, _)
joinLines(lines, sep) ==
    IF Len(lines) = 0 THEN <<>>
    ELSE IF Len(lines) = 1 THEN lines[1]
    ELSE lines[1] \o <<sep>> \o joinLines(Tail(lines), sep)

OutputBuffers ==
    { joinLines(ls, sep) :
        ls \in UNION {[1..n -> SampleLines] : n \in 1..MaxLines},
        sep \in {NL, CRLF} }

InitExtract ==
    /\ RunIdle
    /\ pf \in {[fn |-> "extractTaskResult", arg |-> Some(b), out |-> Null] :
                 b \in OutputBuffers}
    /\ ex = ExIdle
    /\ assets = AssetsIdle

\* out is Some(the returned value), itself Null or Some(result)
ApplyExtract ==
    /\ pf.fn = "extractTaskResult"
    /\ pf.out = Null
    /\ pf' = [pf EXCEPT !.out = Some(extractTaskResult(pf.arg[1]))]
    /\ UNCHANGED <<runVars, ex, assets>>

SpecExtract == InitExtract /\ [][ApplyExtract]_vars

(* ------------------------------------------------------------------ *)
(* executeCodex: timers, output handling and the termination path      *)
(*                                                                     *)
(* A timer handle is "null" (never set), "armed", "fired" or "cleared". *)
(* A configured duration is a number: finite n/d milliseconds, NaN or  *)
(* Infinity.                                                           *)
(*                                                                     *)
(* now is the time since the executor was entered, in milliseconds, or *)
(* Null where time is left out: then an armed timer may fire at any    *)
(* moment. With a clock, a timer fires when its delay has passed and   *)
(* time does not pass a timer that is due.                             *)
(* ------------------------------------------------------------------ *)

\* when a timer set now with setTimeout(callback, ms) is due
dueAfter(e, ms) == IF e.now = Null THEN Null ELSE Some(e.now[1] + ms)

\* the timer due at `at` may run
isDue(e, at) == e.now = Null \/ (at # Null /\ at[1] <= e.now[1])

Finite(n, d) == [kind |-> "finite", n |-> n, d |-> d]
NaN == [kind |-> "NaN", n |-> 0, d |-> 1]

\* Math.trunc of n/d, d > 0
trunc(x) == IF x.n >= 0 THEN x.n \div x.d ELSE -((-x.n) \div x.d)

\* faulty variant: a value below one second is not raised to one second
resolveTimeoutMs_NoClamp(value, defaultValue) ==
    IF value # Null /\ value[1].kind = "finite"
    THEN IF value[1].n <= 0 THEN Null ELSE Some(trunc(value[1]))
    ELSE defaultValue

\* resolveTimeoutMs(value, defaultValue): number | null
resolveTimeoutMs(value, defaultValue) ==
    IF value # Null /\ value[1].kind = "finite"
    THEN IF value[1].n <= 0 THEN Null ELSE Some(Max(1000, trunc(value[1])))
    ELSE defaultValue

\* characters of a token, of a text
width(tok) ==
    CASE tok.t = RESULT_PREFIX -> 10
      [] tok.t = "RESULT:" -> 7
      [] tok.t \in {"{", "}", "\n"} -> 1
      [] tok.t = "\r\n" -> 2
      [] tok.t = "field" -> 12
      [] OTHER -> 4

RECURSIVE chars(_)
chars(text) == IF text = <<>> THEN 0 ELSE width(Head(text)) + chars(Tail(text))

\* text.slice(-n): a token cut in two leaves plain text, or \n of \r\n
RECURSIVE sliceTail(_, _)
sliceTail(text, n) ==
    IF n <= 0 \/ text = <<>> THEN <<>>
    ELSE LET last == text[Len(text)] IN
         IF width(last) <= n
         THEN Append(sliceTail(SubSeq(text, 1, Len(text) - 1), n - width(last)), last)
         ELSE IF last = CRLF THEN <<NL>> ELSE <<TEXT>>

\* appendOutputBuffer(current, chunk)
appendOutputBuffer(current, chunk) ==
    LET next == current \o chunk IN
    IF chars(next) <= OUTPUT_BUFFER_MAX_CHARS THEN next
    ELSE sliceTail(next, OUTPUT_BUFFER_MAX_CHARS)

\* what child.kill(signal) does: it delivers the signal (kill returns true and
\* child.killed becomes true) or, when the process may not be signalled by the
\* runner, fails with EPERM (an 'error' event, killed unchanged)
killOutcome(e) == IF e.signalable THEN "ok" ELSE "EPERM"

\* child.kill(signal) and, on failure, the 'error' handler
kill(e, signal, how) ==
    IF how = "ok"
    THEN [e EXCEPT !.signals = Append(@, signal), !.killed = TRUE,
                   !.delivered = @ \cup {signal}]
    ELSE [e EXCEPT !.signals = Append(@, signal),
                   !.log = Append(@, "executor-error")]

\* terminateChild(reason)
terminateChild(e, reason, how) ==
    IF e.killed \/ e.exitCode # Null \/ e.signalCode # Null THEN e
    ELSE LET told == [e EXCEPT !.log = Append(@, "runner-" \o reason)]
             sent == kill(told, "SIGTERM", how)
         IN [sent EXCEPT !.leakedCloseTimers =
                             IF e.closeTimer = "armed" THEN @ + 1 ELSE @,
                         !.closeTimer = "armed",
                         !.closeDue = dueAfter(e, FORCE_KILL_GRACE_MS)]

\* faulty variant: the timeout is marked and the child left running
markTimeoutAndTerminate_MarkOnly(e, kind, ms, how) ==
    [e EXCEPT !.timedOut = TRUE, !.timeoutKind = Some(kind), !.timeoutMs = Some(ms)]

\* markTimeoutAndTerminate(kind, ms)
markTimeoutAndTerminate(e, kind, ms, how) ==
    terminateChild([e EXCEPT !.timedOut = TRUE, !.timeoutKind = Some(kind),
                             !.timeoutMs = Some(ms)],
                   kind \o "-timeout", how)

\* faulty variant: the idle timer is armed once and never again
resetIdleTimer_Once(e) ==
    IF e.idleTimeoutMs = Null \/ e.idleTimer # "null" THEN e
    ELSE [e EXCEPT !.idleTimer = "armed", !.idleDue = dueAfter(e, e.idleTimeoutMs[1])]

\* resetIdleTimer()
resetIdleTimer(e) ==
    IF e.idleTimeoutMs = Null THEN e
    ELSE [e EXCEPT !.idleTimer = "armed", !.idleDue = dueAfter(e, e.idleTimeoutMs[1])]

\* faulty variant: terminateOnResult is not looked at
handleOutput_AlwaysTerminate(e, text) ==
    LET timed == resetIdleTimer(e)
        buffered == [timed EXCEPT !.outputBuffer = appendOutputBuffer(@, text)]
        detected == extractTaskResult(buffered.outputBuffer)
    IN IF buffered.parsedResult # Null \/ detected = Null THEN buffered
       ELSE [buffered EXCEPT
               !.parsedResult = detected, !.detectedAt = e.now,
               !.log = Append(@, "runner-result-detected"),
               !.resultTimer = "armed",
               !.resultDue = dueAfter(e, RESULT_TERMINATE_GRACE_MS)]

\* faulty variant: every chunk is parsed, also after a result was found
handleOutput_NoLatch(e, text) ==
    LET timed == resetIdleTimer(e)
        buffered == [timed EXCEPT !.outputBuffer = appendOutputBuffer(@, text)]
        detected == extractTaskResult(buffered.outputBuffer)
    IN IF detected = Null THEN buffered
       ELSE LET scheduled == e.options.terminateOnResult = Null
                                \/ e.options.terminateOnResult = Some(TRUE)
            IN [buffered EXCEPT
                  !.parsedResult = detected,
                  !.detectedAt = e.now,
                  !.log = Append(@, "runner-result-detected"),
                  !.resultTimer = IF scheduled THEN "armed" ELSE @,
                  !.resultDue = IF scheduled THEN dueAfter(e, RESULT_TERMINATE_GRACE_MS)
                                ELSE @]

\* handleOutput(text)
handleOutput(e, text) ==
    LET timed == resetIdleTimer(e)
        buffered == [timed EXCEPT !.outputBuffer = appendOutputBuffer(@, text)]
        detected == extractTaskResult(buffered.outputBuffer)
    IN IF buffered.parsedResult # Null THEN buffered
       ELSE IF detected = Null THEN buffered
       ELSE LET scheduled == e.options.terminateOnResult = Null
                                \/ e.options.terminateOnResult = Some(TRUE)
            IN [buffered EXCEPT
                  !.parsedResult = detected,
                  !.detectedAt = e.now,
                  !.log = Append(@, "runner-result-detected"),
                  !.resultTimer = IF scheduled THEN "armed" ELSE @,
                  !.resultDue = IF scheduled THEN dueAfter(e, RESULT_TERMINATE_GRACE_MS)
                                ELSE @]

ExecOptions ==
    [execIdleTimeoutMs : {Null, Some(Finite(0, 1))},
     execHardTimeoutMs : {Null, Some(Finite(5001, 2))},
     execTimeoutMs : {Null},
     terminateOnResult : {Null, Some(FALSE)}]

\* the chunks a child writes to stdout or stderr
ExecChunks ==
    { <<TEXT, NL>>, <<PREFIX>> \o DoneObj \o <<NL>>,
      <<PREFIX>> \o Obj(<<Field("status", Str("failed"))>>) \o <<NL>> }

\* the chunks of the runs with a clock: plain output and a result line
TimedChunks == { <<TEXT, NL>>, <<PREFIX>> \o DoneObj \o <<NL>> }

InitExec ==
    /\ RunIdle
    /\ pf = PfIdle
    /\ ex \in {[ExIdle EXCEPT !.options = o] : o \in ExecOptions}
    /\ assets = AssetsIdle

\* idleTimeoutMs and hardTimeoutMs of executeCodex (lines 352-359)
resolveTimeouts(o) ==
    [idleTimeoutMs |-> resolveTimeoutMs(o.execIdleTimeoutMs,
                                        Some(EXEC_IDLE_TIMEOUT_MS_DEFAULT)),
     hardTimeoutMs |-> resolveTimeoutMs(IF o.execHardTimeoutMs # Null
                                        THEN o.execHardTimeoutMs ELSE o.execTimeoutMs,
                                        Null)]

\* the synchronous part of the promise executor: spawn, then the two timers;
\* a spawn that fails reports it on the next tick
SpawnChild ==
    /\ ex.child = "none"
    /\ \E spawned \in {"running", "failed"},
          signalable \in IF ex.now = Null THEN BOOLEAN ELSE {TRUE} :
         LET idleTimeoutMs == resolveTimeouts(ex.options).idleTimeoutMs
             hardTimeoutMs == resolveTimeouts(ex.options).hardTimeoutMs
         IN ex' = [resetIdleTimer([ex EXCEPT !.child = spawned,
                                             !.signalable = signalable,
                                             !.idleTimeoutMs = idleTimeoutMs,
                                             !.hardTimeoutMs = hardTimeoutMs,
                                             !.lastActivityAt = ex.now])
                     EXCEPT !.hardTimer = IF hardTimeoutMs # Null THEN "armed" ELSE @,
                            !.hardDue = IF hardTimeoutMs # Null
                                        THEN dueAfter(ex, hardTimeoutMs[1]) ELSE @]
    /\ UNCHANGED <<runVars, pf, assets>>

\* child.on('error') of a spawn that failed: the exit code is the negated errno
OnSpawnError ==
    /\ ex.child = "failed"
    /\ ex' = [ex EXCEPT !.child = "exited", !.exitCode = Some(-2),
                        !.log = Append(@, "executor-error")]
    /\ UNCHANGED <<runVars, pf, assets>>

\* child.stdout.on('data') and child.stderr.on('data')
OnData ==
    /\ ex.child \in {"running", "exited"}
    /\ ex.chunks < MaxChunks
    /\ \E text \in IF ex.now = Null THEN ExecChunks ELSE TimedChunks :
         ex' = handleOutput([ex EXCEPT !.chunks = @ + 1, !.lastActivityAt = ex.now], text)
    /\ UNCHANGED <<runVars, pf, assets>>

\* the callback of idleTimer
IdleTimerFires ==
    /\ ex.child \in {"running", "exited"}
    /\ ex.idleTimer = "armed"
    /\ isDue(ex, ex.idleDue)
    /\ ex' = markTimeoutAndTerminate([ex EXCEPT !.idleTimer = "fired"], "idle",
                                     ex.idleTimeoutMs[1], killOutcome(ex))
    /\ UNCHANGED <<runVars, pf, assets>>

\* the callback of hardTimer
HardTimerFires ==
    /\ ex.child \in {"running", "exited"}
    /\ ex.hardTimer = "armed"
    /\ isDue(ex, ex.hardDue)
    /\ ex' = markTimeoutAndTerminate([ex EXCEPT !.hardTimer = "fired"], "hard",
                                     ex.hardTimeoutMs[1], killOutcome(ex))
    /\ UNCHANGED <<runVars, pf, assets>>

\* the callback of the timer handleOutput sets, RESULT_TERMINATE_GRACE_MS after
\* the result was detected; its handle is not kept, so close does not clear it
ResultGraceFires ==
    /\ ex.resultTimer = "armed"
    /\ isDue(ex, ex.resultDue)
    /\ ex' = terminateChild([ex EXCEPT !.resultTimer = "fired"], "result-received",
                            killOutcome(ex))
    /\ UNCHANGED <<runVars, pf, assets>>

\* the callback of a timer terminateChild set, FORCE_KILL_GRACE_MS after SIGTERM;
\* graceExpired records that it ran while the process had not exited
ForceKillTimerFires ==
    /\ ex.child \in {"running", "exited"}
    /\ \/ ex.closeTimer = "armed"
       \/ ex.leakedCloseTimers > 0
    /\ \E current \in BOOLEAN :
         /\ current => ex.closeTimer = "armed" /\ isDue(ex, ex.closeDue)
         /\ ~current => ex.leakedCloseTimers > 0
         /\ LET due == IF current THEN [ex EXCEPT !.closeTimer = "fired"]
                       ELSE [ex EXCEPT !.leakedCloseTimers = @ - 1]
                seen == [due EXCEPT !.graceExpired = @ \/ ex.child = "running"]
            IN ex' = IF seen.killed \/ seen.exitCode # Null \/ seen.signalCode # Null
                     THEN seen
                     ELSE kill([seen EXCEPT !.log = Append(@, "runner-force-kill")],
                               "SIGKILL", killOutcome(ex))
    /\ UNCHANGED <<runVars, pf, assets>>

\* the 'exit' event: the process ended by itself, or by a signal it was sent
ChildExits ==
    /\ ex.child = "running"
    /\ \/ \E code \in {0, 1} : ex' = [ex EXCEPT !.child = "exited", !.exitCode = Some(code)]
       \/ \E sig \in ex.delivered :
            ex' = [ex EXCEPT !.child = "exited", !.signalCode = Some(sig)]
    /\ UNCHANGED <<runVars, pf, assets>>

clearTimeout(timer) == IF timer = "armed" THEN "cleared" ELSE timer

\* child.on('close'): clear the three kept timers, end the log, resolve
OnClose ==
    /\ ex.child = "exited"
    /\ ex' = [ex EXCEPT
                !.child = "closed",
                !.idleTimer = clearTimeout(@),
                !.hardTimer = clearTimeout(@),
                !.closeTimer = clearTimeout(@),
                !.outEnded = TRUE,
                !.resolved = Some([exitCode |-> ex.exitCode, signal |-> ex.signalCode,
                                   timedOut |-> ex.timedOut, timeoutMs |-> ex.timeoutMs,
                                   timeoutKind |-> ex.timeoutKind,
                                   parsedResult |-> ex.parsedResult])]
    /\ UNCHANGED <<runVars, pf, assets>>

ExecNext ==
    \/ SpawnChild
    \/ OnSpawnError
    \/ OnData
    \/ IdleTimerFires
    \/ HardTimerFires
    \/ ResultGraceFires
    \/ ForceKillTimerFires
    \/ ChildExits
    \/ OnClose

SpecExec == InitExec /\ [][ExecNext]_vars

(* ------------------------------------------------------------------ *)
(* SpecOutput: executeCodex with the idle and hard timers disabled,    *)
(* so that only the output and the process end the attempt             *)
(* ------------------------------------------------------------------ *)

InitOutput ==
    /\ RunIdle
    /\ pf = PfIdle
    /\ ex \in {[ExIdle EXCEPT !.options = o] :
                 o \in {x \in ExecOptions : x.execIdleTimeoutMs # Null
                                             /\ x.execHardTimeoutMs = Null}}
    /\ assets = AssetsIdle

OutputNext ==
    \/ SpawnChild
    \/ OnSpawnError
    \/ OnData
    \/ ResultGraceFires
    \/ ForceKillTimerFires
    \/ ChildExits
    \/ OnClose

SpecOutput == InitOutput /\ [][OutputNext]_vars

\* what the event loop and the kernel guarantee: a due timer's callback runs,
\* a failed spawn is reported, 'close' follows the end of the process, and a
\* process that was delivered SIGKILL ends. Nothing makes a process write
\* output, exit by itself or obey SIGTERM.
ReapFairness ==
    /\ WF_vars(SpawnChild)
    /\ WF_vars(OnSpawnError)
    /\ WF_vars(IdleTimerFires)
    /\ WF_vars(HardTimerFires)
    /\ WF_vars(ResultGraceFires)
    /\ WF_vars(ForceKillTimerFires)
    /\ WF_vars(ChildExits /\ ex'.signalCode = Some("SIGKILL"))
    /\ WF_vars(OnClose)

SpecReap == InitExec /\ [][ExecNext]_vars /\ ReapFairness

(* ------------------------------------------------------------------ *)
(* SpecTimeouts: the timeout options of executeCodex resolved          *)
(* ------------------------------------------------------------------ *)

\* what a caller may pass for a timeout: nothing, NaN, Infinity, or n/d
TimeoutValues ==
    {Null, Some(NaN), Some([kind |-> "Infinity", n |-> 1, d |-> 1])}
      \cup {Some(Finite(n, d)) : n \in {-1, 0, 1, 999, 1000, 1001, 3001}, d \in {1, 2}}

InitTimeouts ==
    /\ RunIdle
    /\ pf \in {[fn |-> "resolveTimeouts", arg |-> Some(o), out |-> Null] :
                 o \in [execIdleTimeoutMs : TimeoutValues,
                        execHardTimeoutMs : TimeoutValues,
                        execTimeoutMs : TimeoutValues]}
    /\ ex = ExIdle
    /\ assets = AssetsIdle

ApplyTimeouts ==
    /\ pf.fn = "resolveTimeouts"
    /\ pf.out = Null
    /\ pf' = [pf EXCEPT !.out = Some(resolveTimeouts(pf.arg[1]))]
    /\ UNCHANGED <<runVars, ex, assets>>

SpecTimeouts == InitTimeouts /\ [][ApplyTimeouts]_vars

(* ------------------------------------------------------------------ *)
(* SpecTimed: executeCodex with a clock, and a child that the runner   *)
(* is allowed to signal                                                *)
(* ------------------------------------------------------------------ *)

\* the times at which the timers that are armed are due
armedDues(e) ==
    {at[1] : at \in {d \in {IF e.idleTimer = "armed" THEN e.idleDue ELSE Null,
                           IF e.hardTimer = "armed" THEN e.hardDue ELSE Null,
                           IF e.resultTimer = "armed" THEN e.resultDue ELSE Null,
                           IF e.closeTimer = "armed" THEN e.closeDue ELSE Null} :
                     d # Null}}

InitTimed ==
    /\ RunIdle
    /\ pf = PfIdle
    /\ ex \in {[ExIdle EXCEPT !.options = o, !.now = Some(0)] :
                 o \in [execIdleTimeoutMs : {Some(Finite(0, 1)), Some(Finite(1200, 1))},
                        execHardTimeoutMs : {Null, Some(Finite(-5, 1)), Some(Finite(5001, 2))},
                        execTimeoutMs : {Null},
                        terminateOnResult : {Null, Some(FALSE)}]}
    /\ assets = AssetsIdle

\* time passes, to the moment the next timer is due or, before that, by half a
\* second; the event loop then runs whatever is due
Advance ==
    /\ ex.now # Null
    /\ ex.child \in {"running", "exited", "closed"}
    /\ \E t \in armedDues(ex) \cup {ex.now[1] + 500} :
         /\ t > ex.now[1]
         /\ \A d \in armedDues(ex) : t <= d
         /\ t \notin armedDues(ex) => ex.waits < MaxWaits
         /\ ex' = [ex EXCEPT !.now = Some(t),
                             !.waits = IF t \in armedDues(ex) THEN @ ELSE @ + 1]
    /\ UNCHANGED <<runVars, pf, assets>>

TimedNext ==
    \/ ExecNext
    \/ Advance

SpecTimed == InitTimed /\ [][TimedNext]_vars

(* ------------------------------------------------------------------ *)
(* initAssets: the files of the project                                *)
(*                                                                     *)
(* A file is Null (missing) or Some(text). A text is a sequence of     *)
(* tokens: a marker, a heading, a front-matter block, other text, or   *)
(* NL for one line break; other whitespace is not represented.         *)
(* ------------------------------------------------------------------ *)

AGENTS_MARK_START == Tok("<!-- TM-LONGRUN-START -->")
AGENTS_MARK_END == Tok("<!-- TM-LONGRUN-END -->")
SKILL_INTEGRATION_MARK_START == Tok("<!-- TM-INTEGRATION-START -->")
SKILL_INTEGRATION_MARK_END == Tok("<!-- TM-INTEGRATION-END -->")

SKILL_INTEGRATION_ADDENDUM ==
    <<SKILL_INTEGRATION_MARK_START, NL, Tok("## Taskmaster Integration Addendum"),
      NL, SKILL_INTEGRATION_MARK_END>>

\* `${SKILL_FRONTMATTER}\n\n${DEFAULT_SKILL_BODY}`
DEFAULT_SKILL_TEMPLATE ==
    <<Tok("---\nname: taskmaster-longrun\n---"), NL, NL,
      Tok("# Taskmaster Longrun Skill"), NL>>

FALLBACK_UPSTREAM_AGENTS == <<Tok("# Global Agent Rules"), NL, NL, Tok("## Language"), NL>>

\* the texts behind UPSTREAM_TASKMASTER_SKILL_URL and UPSTREAM_CODEX_AGENTS_URL,
\* as looksLikeUpstreamTaskmasterSkill and looksLikeUpstreamAgents describe them
UPSTREAM_TASKMASTER_SKILL ==
    <<Tok("---\nname: taskmaster\n---"), NL, NL,
      Tok("# Taskmaster - Unified Task Protocol"), NL>>

UPSTREAM_CODEX_AGENTS == <<Tok("# Global Agent Rules"), NL, NL, Tok("## Workflow"), NL>>

\* the paths of resolvePaths, relative to the project root, with the defaults
resolvePaths ==
    [agentsPath |-> "AGENTS.md",
     skillAgentsPath |-> ".codex/skills/taskmaster-longrun/AGENTS.md",
     skillPath |-> ".codex/skills/taskmaster-longrun/SKILL.md",
     specPath |-> ".codex-tasks/taskmaster-longrun/SPEC.md",
     progressPath |-> ".codex-tasks/taskmaster-longrun/PROGRESS.md",
     gitignore |-> ".codex-tasks/.gitignore"]

includes(content, tok) == indexOf(content, tok.t) # 0

trimEnd(content) ==
    LET keep == {i \in 1..Len(content) : content[i] # NL}
    IN IF keep = {} THEN <<>> ELSE SubSeq(content, 1, MaxOf(keep))

trimStart(content) ==
    LET keep == {i \in 1..Len(content) : content[i] # NL}
    IN IF keep = {} THEN <<>> ELSE SubSeq(content, MinOf(keep), Len(content))

resolveMode(mode) ==
    IF mode \in {Some("lite"), Some("full")} THEN mode[1] ELSE "full"

\* the answer of fetch is Null (no answer, or not ok) or Some(text)
loadRemoteTemplate(disableRemote, fetched, fallback) ==
    IF disableRemote THEN fallback
    ELSE IF fetched = Null THEN fallback
    ELSE IF trimEnd(fetched[1]) # <<>> THEN fetched[1] ELSE fallback

\* each ensure... gives the file it leaves and what it did with it:
\* "created", "updated", "skipped", or the error it threw
ensureCodexTasksGitignore(file) ==
    IF file = Null THEN Some(<<Tok("*"), NL, Tok("!.gitignore"), NL>>)
    ELSE LET content == file[1]
             first == IF ~includes(content, Tok("*"))
                      THEN content \o <<NL, Tok("*"), NL>> ELSE content
         IN Some(IF ~includes(content, Tok("!.gitignore"))
                 THEN first \o <<Tok("!.gitignore"), NL>> ELSE first)

\* faulty variant: the markers and the mode are not looked at
ensureAgentsHook_AppendTwice(file, mode) ==
    LET block == <<AGENTS_MARK_START, NL, Tok("## Taskmaster Longrun Hook"), NL,
                   AGENTS_MARK_END>>
    IN IF file = Null
       THEN [file |-> Some(block \o <<NL>>), did |-> "created"]
       ELSE [file |-> Some(trimEnd(file[1]) \o <<NL, NL>> \o block \o <<NL>>),
             did |-> "updated"]

ensureAgentsHook(file, mode) ==
    LET block == <<AGENTS_MARK_START, NL, Tok("## Taskmaster Longrun Hook"), NL,
                   AGENTS_MARK_END>>
    IN IF file = Null
       THEN [file |-> Some(block \o <<NL>>), did |-> "created"]
       ELSE LET content == file[1]
                hasStart == includes(content, AGENTS_MARK_START)
                hasEnd == includes(content, AGENTS_MARK_END)
            IN CASE hasStart /\ hasEnd -> [file |-> file, did |-> "skipped"]
                 [] hasStart # hasEnd ->
                      [file |-> file, did |-> "Invalid AGENTS hook markers"]
                 [] ~hasStart /\ ~hasEnd /\ mode = "skip" ->
                      [file |-> file, did |-> "skipped"]
                 [] ~hasStart /\ ~hasEnd /\ mode = "fail" ->
                      [file |-> file, did |-> "AGENTS hook missing"]
                 [] OTHER ->
                      [file |-> Some(trimEnd(content) \o <<NL, NL>> \o block \o <<NL>>),
                       did |-> "updated"]

looksLikeUpstreamAgents(content) == includes(content, Tok("# Global Agent Rules"))

ensureUpstreamAgentsTemplate(file, remote) ==
    IF file # Null /\ file[1] # <<>> /\ looksLikeUpstreamAgents(file[1])
    THEN [file |-> file, did |-> "skipped"]
    ELSE [file |-> Some(remote),
          did |-> IF file # Null /\ file[1] # <<>> THEN "updated" ELSE "created"]

\* hasYamlFrontmatter, and the two texts looked for with includes
looksLikeUpstreamTaskmasterSkill(content) ==
    LET frontmatter == {Tok("---\nname: taskmaster-longrun\n---"),
                        Tok("---\nname: taskmaster\n---")}
    IN /\ content # <<>> /\ content[1] \in frontmatter
       /\ \E i \in 1..Len(content) : content[i] \in frontmatter
       /\ includes(content, Tok("# Taskmaster - Unified Task Protocol"))

hasSkillIntegrationAddon(content) ==
    /\ includes(content, SKILL_INTEGRATION_MARK_START)
    /\ includes(content, SKILL_INTEGRATION_MARK_END)

removeMarkedBlock(content, start, end) ==
    LET startIndex == indexOf(content, start.t)
        endIndex == indexOf(content, end.t)
    IN IF startIndex = 0 \/ endIndex = 0 \/ endIndex < startIndex THEN content
       ELSE LET prefix == trimEnd(SubSeq(content, 1, startIndex - 1))
                suffix == trimStart(SubSeq(content, endIndex + 1, Len(content)))
            IN IF prefix = <<>> THEN suffix
               ELSE IF suffix = <<>> THEN prefix \o <<NL>>
               ELSE prefix \o <<NL, NL>> \o suffix

mergeSkillWithIntegrationAddon(content) ==
    LET withoutAddon == removeMarkedBlock(content, SKILL_INTEGRATION_MARK_START,
                                          SKILL_INTEGRATION_MARK_END)
    IN trimEnd(withoutAddon) \o <<NL, NL>> \o SKILL_INTEGRATION_ADDENDUM \o <<NL>>

ensureSkillTemplate(file, remote) ==
    IF file = Null \/ file[1] = <<>>
    THEN [file |-> Some(mergeSkillWithIntegrationAddon(remote)), did |-> "created"]
    ELSE IF looksLikeUpstreamTaskmasterSkill(file[1]) /\ hasSkillIntegrationAddon(file[1])
    THEN [file |-> file, did |-> "skipped"]
    ELSE [file |-> Some(mergeSkillWithIntegrationAddon(remote)), did |-> "updated"]

\* ensureSpecTemplate and ensureProgressTemplate
ensureTemplate(file, template) ==
    IF file # Null THEN [file |-> file, did |-> "skipped"]
    ELSE [file |-> Some(template), did |-> "created"]

\* one ensure... step of initAssets: nothing after a throw is executed
ensureStep(s, filePath, r) ==
    IF s.error # Null THEN s
    ELSE [files |-> [s.files EXCEPT ![filePath] = r.file],
          created |-> IF r.did = "created" THEN Append(s.created, filePath) ELSE s.created,
          updated |-> IF r.did = "updated" THEN Append(s.updated, filePath) ELSE s.updated,
          skipped |-> IF r.did = "skipped" THEN Append(s.skipped, filePath) ELSE s.skipped,
          error |-> IF r.did \in {"created", "updated", "skipped"} THEN Null
                    ELSE Some(r.did)]

\* net: what fetch answers for the two upstream URLs, if it is asked
initAssets(files, opts, disableRemote, net) ==
    LET paths == resolvePaths
        mode == resolveMode(opts.mode)
        s0 == [files |-> [files EXCEPT ![paths.gitignore] = ensureCodexTasksGitignore(@)],
               created |-> <<>>, updated |-> <<>>, skipped |-> <<>>, error |-> Null]
        s1 == ensureStep(s0, paths.agentsPath,
                  ensureAgentsHook(s0.files[paths.agentsPath],
                      IF opts.agentsMode = Null THEN "append" ELSE opts.agentsMode[1]))
        s2 == ensureStep(s1, paths.skillAgentsPath,
                  ensureUpstreamAgentsTemplate(s1.files[paths.skillAgentsPath],
                      loadRemoteTemplate(disableRemote, net.agents, FALLBACK_UPSTREAM_AGENTS)))
        s3 == ensureStep(s2, paths.skillPath,
                  ensureSkillTemplate(s2.files[paths.skillPath],
                      loadRemoteTemplate(disableRemote, net.skill, DEFAULT_SKILL_TEMPLATE)))
        s4 == ensureStep(s3, paths.specPath,
                  ensureTemplate(s3.files[paths.specPath], <<Tok("# SPEC"), NL>>))
        s5 == ensureStep(s4, paths.progressPath,
                  ensureTemplate(s4.files[paths.progressPath], <<Tok("# PROGRESS"), NL>>))
    IN IF mode = "full" THEN s5 ELSE s3

(* ------------------------------------------------------------------ *)
(* SpecInit: initAssets called repeatedly on one project               *)
(* ------------------------------------------------------------------ *)

\* the answers of the network to the two fetches of one call
NetAnswers ==
    [agents : {Null, Some(UPSTREAM_CODEX_AGENTS)},
     skill : {Null, Some(<<NL>>), Some(UPSTREAM_TASKMASTER_SKILL)}]

\* a project before the first call: clean, or with files of its own
Projects ==
    LET text == Tok("# Existing instructions")
        agentsFiles == {Null, Some(<<text, NL>>), Some(<<text, NL, NL>>),
                        Some(<<text, NL, AGENTS_MARK_START, NL>>),
                        Some(<<AGENTS_MARK_END, NL, text>>),
                        Some(<<AGENTS_MARK_START, NL, text, NL, AGENTS_MARK_END, NL>>),
                        Some(<<AGENTS_MARK_END, NL, AGENTS_MARK_START, NL>>)}
        gitignores == {Null, Some(<<Tok("node_modules"), NL>>)}
        skills == {Null, Some(<<Tok("# My skill"), NL>>)}
    IN {[p \in Range(<<resolvePaths.agentsPath, resolvePaths.skillAgentsPath,
                       resolvePaths.skillPath, resolvePaths.specPath,
                       resolvePaths.progressPath, resolvePaths.gitignore>>) |->
            CASE p = resolvePaths.agentsPath -> a
              [] p = resolvePaths.gitignore -> g
              [] p = resolvePaths.skillPath -> s
              [] OTHER -> Null] :
        a \in agentsFiles, g \in gitignores, s \in skills}

InitOptions ==
    [mode : {Null, Some("lite"), Some("auto")},
     agentsMode : {Null, Some("append"), Some("skip"), Some("fail")}]

InitInit ==
    /\ RunIdle
    /\ pf = PfIdle
    /\ ex = ExIdle
    /\ assets \in [files : Projects, options : InitOptions, disableRemote : BOOLEAN,
                   calls : {<<>>}]

\* one call of initAssets, alone or as the first step of run (line 229)
InitAssets ==
    /\ pc \in {"idle", "initAssets"}
    /\ Len(assets.calls) < MaxInits
    /\ \E net \in IF assets.disableRemote THEN {[agents |-> Null, skill |-> Null]}
                   ELSE NetAnswers :
         LET r == initAssets(assets.files, assets.options, assets.disableRemote, net)
         IN /\ assets' = [assets EXCEPT !.files = r.files,
                              !.calls = Append(@, [before |-> assets.files, net |-> net,
                                                   result |-> r])]
            /\ pc' = IF pc = "idle" THEN "idle"
                     ELSE IF r.error # Null THEN "rejected" ELSE "loadCheckpoint"
            /\ thrown' = IF pc = "idle" \/ r.error = Null THEN thrown
                         ELSE Some(<<"setup", r.error[1]>>)
    /\ UNCHANGED <<pf, ex, loaded, options, getNextPolicy, storeTasks, taskStatus,
                   checkpoint, diskCheckpoint, checkpointFile, ledger, plan, totalRuns,
                   nextTask, execResult, result, statusWrites>>

SpecInit == InitInit /\ [][InitAssets]_vars

(* ------------------------------------------------------------------ *)
(* SpecSetup: run from its first line: initAssets, loadCheckpoint, the *)
(* first syncTodoAndMap, then the loop                                 *)
(* ------------------------------------------------------------------ *)

\* faulty variant: a file that does not parse is taken for a missing one
loadCheckpoint_EmptyOnCorrupt(file, content) ==
    IF file = "complete" THEN Some(content) ELSE Some(EmptyCheckpoint)

\* Null when JSON.parse throws: a file cut short is not valid JSON
loadCheckpoint(file, content) ==
    CASE file = "missing" -> Some(EmptyCheckpoint)
      [] file = "complete" -> Some(content)
      [] OTHER -> Null

InitSetup ==
    /\ options \in {o \in RunOptions : o.maxRetries = Some(0) /\ o.maxTasks # 1}
    /\ getNextPolicy = "eligible"
    /\ storeTasks \in {{"1"}, Tasks}
    /\ diskCheckpoint \in LoadedCheckpoints
    /\ checkpointFile \in {IF diskCheckpoint = EmptyCheckpoint THEN "missing" ELSE "complete",
                           "partial"}
    /\ loaded = EmptyCheckpoint
    /\ checkpoint = EmptyCheckpoint
    /\ taskStatus = StoreStatusOf(diskCheckpoint)
    /\ plan = projectPlan({}, taskStatus, EmptyCheckpoint)
    /\ ledger = <<>>
    /\ totalRuns = 0
    /\ nextTask = Null
    /\ execResult = NoExecResult
    /\ result = NoResult
    /\ statusWrites = <<>>
    /\ thrown = Null
    /\ pc = "initAssets"
    /\ pf = PfIdle
    /\ ex = ExIdle
    /\ assets \in {a \in [files : Projects, options : InitOptions, disableRemote : {TRUE},
                          calls : {<<>>}] :
                     /\ a.files[resolvePaths.gitignore] = Null
                     /\ a.files[resolvePaths.skillPath] = Null
                     /\ a.options.agentsMode \in {Null, Some("fail")}}

\* line 231, and the names bound at lines 230-233
LoadCheckpoint ==
    /\ pc = "loadCheckpoint"
    /\ LET r == loadCheckpoint(checkpointFile, diskCheckpoint)
       IN IF r = Null
          THEN /\ thrown' = Some(<<"setup", "checkpoint.json is not valid JSON">>)
               /\ pc' = "rejected"
               /\ UNCHANGED <<loaded, checkpoint>>
          ELSE /\ loaded' = r[1]
               /\ checkpoint' = r[1]
               /\ pc' = "sync_loop"
               /\ UNCHANGED thrown
    /\ UNCHANGED <<pf, ex, assets, options, getNextPolicy, storeTasks, taskStatus,
                   diskCheckpoint, checkpointFile, ledger, plan, totalRuns, nextTask,
                   execResult, result, statusWrites>>

\* renderCsv and renderLiteCsv: the header line and the rows
renderCsv(rows) ==
    [header |-> "id,task,status,acceptance_criteria,validation_command,completed_at,retry_count,notes",
     rows |-> rows]

renderLiteCsv(rows) ==
    [header |-> "id,task,status,completed_at,notes",
     rows |-> [t \in DOMAIN rows |->
                  [status |-> IF rows[t].status = "DONE" THEN "DONE" ELSE "TODO",
                   notes |-> rows[t].notes]]]

\* faulty variant: the plan is kept in the session directory in both modes
todoCsvPath_InSession(mode) == ".codex-tasks/taskmaster-longrun/TODO.csv"

\* paths.todoCsvPath (lines 186-189)
todoCsvPath(mode) ==
    IF mode = "lite" THEN "TODO.csv" ELSE ".codex-tasks/taskmaster-longrun/TODO.csv"

\* the files of the project as run has left them: those of initAssets and,
\* once syncTodoAndMap has run, the plan it wrote last (lines 880-884) and, in
\* full mode, the task map (lines 885-888)
projectFiles ==
    LET mode == resolveMode(assets.options.mode)
        synced == DOMAIN plan # {}
        planPaths == {"TODO.csv", ".codex-tasks/taskmaster-longrun/TODO.csv"}
        mapPath == ".codex-tasks/taskmaster-longrun/taskmaster-map.json"
    IN [p \in DOMAIN assets.files \cup planPaths \cup {mapPath} |->
          IF p \in planPaths
          THEN IF synced /\ p = todoCsvPath(mode)
               THEN Some(IF mode = "lite" THEN renderLiteCsv(plan) ELSE renderCsv(plan))
               ELSE Null
          ELSE IF p = mapPath
          THEN IF synced /\ mode = "full" THEN Some(DOMAIN plan) ELSE Null
          ELSE assets.files[p]]

SetupNext ==
    \/ InitAssets
    \/ LoadCheckpoint
    \/ RunNext

SpecSetup == InitSetup /\ [][SetupNext]_vars

(* ------------------------------------------------------------------ *)
(* Properties of run                                                   *)
(* ------------------------------------------------------------------ *)

Last(s) == s[Len(s)]

\* an attempt has been classified and its status write and checkpoint mutation done
AttemptApplied ==
    /\ nextTask # Null
    /\ pc \in {"ledger", "save_loop", "sync_loop", "save_error", "sync_error", "returned"}

\* the ledger entry of the current attempt is written
AttemptLogged ==
    /\ nextTask # Null
    /\ pc \in {"save_loop", "sync_loop", "save_error", "sync_error", "returned"}

\* the retries the claims speak of: default 3, floored at 0
EffectiveRetries ==
    IF options.maxRetries = Null THEN 3
    ELSE IF options.maxRetries[1] < 0 THEN 0 ELSE options.maxRetries[1]

\* the indices of the ledger entries of task t
EntriesOf(t) == {i \in 1..Len(ledger) : ledger[i].taskId = t}

\* C1: after every iteration of run's loop (whatever getNext returned and the
\* executor did) doneTaskIds and blockedTaskIds are disjoint, given that they
\* were disjoint in the loaded checkpoint.
C1_DoneBlockedDisjoint ==
    pc \in {"getNext", "returned"} =>
        Range(checkpoint.doneTaskIds) \cap Range(checkpoint.blockedTaskIds) = {}

\* C3: a failed attempt whose post-increment count n exceeds maxRetries (default
\* 3, floored at 0) sets the external status to blocked, puts the id in
\* blockedTaskIds and is logged BLOCKED; any other failed attempt sets the
\* status back to pending and is logged FAILED. A task that only failed since
\* attempt 1 is blocked on try maxRetries+1 and on no earlier one.
C3_RetryLimit ==
    /\ \A i \in 1..Len(ledger) :
          ledger[i].status # "DONE" =>
             /\ ledger[i].status = "BLOCKED" <=> ledger[i].attempt > EffectiveRetries
             /\ ledger[i].status = "FAILED" <=> ledger[i].attempt <= EffectiveRetries
    /\ (AttemptApplied /\ ~outcome.success) =>
          IF attempt > EffectiveRetries
          THEN /\ taskStatus[taskId] = "blocked"
               /\ taskId \in Range(checkpoint.blockedTaskIds)
          ELSE taskStatus[taskId] = "pending"
    /\ (AttemptLogged /\ ~outcome.success) =>
          /\ Last(ledger).taskId = taskId
          /\ Last(ledger).attempt = attempt
          /\ Last(ledger).status # "DONE"
    /\ \A t \in Tasks :
          (loaded.attempts[t] = 0 /\ \A i \in EntriesOf(t) : ledger[i].status # "DONE") =>
             \A i \in EntriesOf(t) :
                /\ ledger[i].attempt = Cardinality({j \in EntriesOf(t) : j <= i})
                /\ ledger[i].status = "BLOCKED" <=>
                      Cardinality({j \in EntriesOf(t) : j <= i}) >= EffectiveRetries + 1

\* C3 witness: with maxRetries left to its default a task is blocked on its 4th failed try
C3_Witness ==
    /\ options.maxRetries = Null
    /\ \E i \in 1..Len(ledger) :
          /\ ledger[i].status = "BLOCKED"
          /\ ledger[i].attempt = 4
          /\ \A j \in EntriesOf(ledger[i].taskId) : j < i => ledger[j].status = "FAILED"
          /\ taskStatus[ledger[i].taskId] = "blocked"

\* the scenario of C4: a fresh session, a store holding the single task "1"
\* that offers it while it is pending, maxRetries=2, maxTasks unset, and an
\* executor that has failed with exit 1 and no sentinel on its first two
\* invocations and succeeded on its third
C4_Scenario ==
    /\ storeTasks = {"1"}
    /\ getNextPolicy = "eligible"
    /\ loaded = EmptyCheckpoint
    /\ options.maxRetries = Some(2)
    /\ options.maxTasks = 0
    /\ Len(ledger) <= 3
    /\ \A i \in 1..Len(ledger) :
          IF i <= 2
          THEN ledger[i].exitCode = Some(1) /\ ledger[i].status # "DONE"
          ELSE ledger[i].status = "DONE"

C4_Expected ==
    /\ checkpoint.attempts["1"] = 3
    /\ taskStatus["1"] = "done"
    /\ "1" \in Range(checkpoint.doneTaskIds)
    /\ Len(ledger) = 3
    /\ [i \in 1..3 |-> ledger[i].status] = <<"FAILED", "FAILED", "DONE">>

C5_FailFast ==
    ~options.continueOnFailure =>
       \A i \in 1..Len(ledger) :
          ledger[i].status \in {"FAILED", "BLOCKED"} =>
             /\ i = Len(ledger)
             /\ totalRuns = i
             /\ pc \in {"save_error", "sync_error", "returned"}
             /\ pc \in {"sync_error", "returned"} => diskCheckpoint = checkpoint
             /\ pc = "returned" =>
                   /\ plan = projectPlan(storeTasks, taskStatus, checkpoint)
                   /\ result # Null
                   /\ result[1].finalStatus = "error"
                   /\ result[1].errorMessage # Null
                   /\ ledger[i].taskId \in Range(result[1].errorMessage[1])
                   /\ "failed" \in Range(result[1].errorMessage[1])

\* C5 witness: maxTasks set, the only attempt blocked, run returned
C5_Witness ==
    /\ pc = "returned"
    /\ ~options.continueOnFailure
    /\ options.maxTasks # 0
    /\ ledger # <<>>
    /\ Last(ledger).status = "BLOCKED"
    /\ result[1].finalStatus = "error"

\* the external status the runner writes for a ledger status
StatusFor(ledgerSt) ==
    CASE ledgerSt = "DONE" -> "done"
      [] ledgerSt = "BLOCKED" -> "blocked"
      [] ledgerSt = "FAILED" -> "pending"

\* C7: after an attempt is classified DONE the task's external status is done
\* before the next getNext call or the return, after BLOCKED it is blocked;
\* the status write precedes the attempt's ledger append and checkpoint save.
C7_StatusBeforeLedgerAndSave ==
    /\ (AttemptApplied /\ ledgerStatus \in {"DONE", "BLOCKED"}) =>
          taskStatus[taskId] = StatusFor(ledgerStatus)
    /\ (pc \in {"getNext", "save_final", "sync_final", "returned"} /\ ledger # <<>>
          /\ Last(ledger).status \in {"DONE", "BLOCKED"}) =>
          taskStatus[Last(ledger).taskId] = StatusFor(Last(ledger).status)
    /\ \A i \in 1..Len(ledger) :
          /\ Len(statusWrites) >= 2 * i
          /\ statusWrites[2 * i] = <<ledger[i].taskId, StatusFor(ledger[i].status)>>
    /\ pc \in {"status", "ledger"} =>
          /\ Len(ledger) = totalRuns - 1
          /\ diskCheckpoint.attempts[taskId] < checkpoint.attempts[taskId]
    /\ pc \in {"save_loop", "save_error"} =>
          diskCheckpoint.attempts[taskId] < checkpoint.attempts[taskId]

\* C7 witness: one task classified DONE, another BLOCKED, the loop about to ask again
C7_Witness ==
    /\ pc = "getNext"
    /\ \E i, j \in 1..Len(ledger) :
          /\ ledger[i].status = "DONE" /\ ledger[j].status = "BLOCKED"
          /\ ledger[i].taskId # ledger[j].taskId
          /\ taskStatus[ledger[i].taskId] = "done"
          /\ taskStatus[ledger[j].taskId] = "blocked"

\* occurrences of value in a list
Count(items, value) == Cardinality({i \in 1..Len(items) : items[i] = value})

\* C8: a successful attempt sets the external status to done, has the id in
\* doneTaskIds exactly once and not in blockedTaskIds, and appends exactly one
\* DONE ledger entry; a single task succeeding on its first attempt makes run
\* return completedTaskIds=[id], all_complete and attempts[id]=1.
C8_SuccessBranch ==
    /\ (AttemptApplied /\ outcome.success) =>
          /\ taskStatus[taskId] = "done"
          /\ Count(checkpoint.doneTaskIds, taskId) = 1
          /\ taskId \notin Range(checkpoint.blockedTaskIds)
    /\ (pc = "ledger" /\ outcome.success) => Len(ledger) = totalRuns - 1
    /\ (AttemptLogged /\ outcome.success) =>
          /\ Len(ledger) = totalRuns
          /\ Last(ledger).status = "DONE"
          /\ Last(ledger).taskId = taskId
          /\ Last(ledger).attempt = attempt
    /\ \A t \in Tasks : Count(checkpoint.doneTaskIds, t) <= 1
    /\ (pc = "returned" /\ storeTasks = {"1"} /\ loaded = EmptyCheckpoint
          /\ Len(ledger) = 1 /\ ledger[1].status = "DONE" /\ ledger[1].attempt = 1) =>
          /\ result[1].completedTaskIds = <<"1">>
          /\ result[1].finalStatus = "all_complete"
          /\ result[1].attempts["1"] = 1

\* C8 witness: the single task succeeded on its first attempt and run returned
C8_Witness ==
    /\ pc = "returned"
    /\ storeTasks = {"1"}
    /\ loaded = EmptyCheckpoint
    /\ Len(ledger) = 1
    /\ ledger[1].status = "DONE"
    /\ result[1].completedTaskIds = <<"1">>

\* a success took an id out of blockedTaskIds
C8_UnblockReached ==
    /\ AttemptApplied /\ outcome.success
    /\ taskId \in Range(loaded.blockedTaskIds)

\* C11: in every state the loop reaches from an empty checkpoint, every id in
\* doneTaskIds or blockedTaskIds has attempts[id] >= 1, in memory and on disk.
C11_AttemptsPositive ==
    loaded = EmptyCheckpoint =>
        \A cp \in {checkpoint, diskCheckpoint} :
            \A t \in Range(cp.doneTaskIds) \cup Range(cp.blockedTaskIds) :
                cp.attempts[t] >= 1

\* C11 witness: a run from an empty checkpoint saved one task done and one blocked
C11_Witness ==
    /\ loaded = EmptyCheckpoint
    /\ diskCheckpoint.doneTaskIds # <<>>
    /\ diskCheckpoint.blockedTaskIds # <<>>
    /\ \A t \in Range(diskCheckpoint.doneTaskIds) \cup Range(diskCheckpoint.blockedTaskIds) :
          diskCheckpoint.attempts[t] >= 1

\* C12: each attempt of task i raises attempts[i] by exactly 1 (from 0 to 1 on
\* the first attempt) before the executor is launched, no other step changes
\* attempts, and attempts[i] never decreases from one checkpoint write to the
\* next, nor below what a resumed run loaded.
C12_AttemptsStep ==
    /\ [](\A t \in Tasks : diskCheckpoint.attempts[t] >= loaded.attempts[t])
    /\ [](pc = "exec" =>
             checkpoint.attempts[taskId] = diskCheckpoint.attempts[taskId] + 1)
    /\ [][ /\ (pc = "getNext" /\ pc' = "exec") =>
               /\ totalRuns' = totalRuns
               /\ \A t \in Tasks :
                     checkpoint'.attempts[t] =
                        IF t = nextTask'[1] THEN checkpoint.attempts[t] + 1
                        ELSE checkpoint.attempts[t]
           /\ ~(pc = "getNext" /\ pc' = "exec") =>
               checkpoint'.attempts = checkpoint.attempts
           /\ \A t \in Tasks :
                 diskCheckpoint'.attempts[t] >= diskCheckpoint.attempts[t] ]_vars

\* C12 witness: a run resumed from a checkpoint with one attempt of task 1 has
\* saved its third and launched the next
C12_Witness ==
    /\ loaded.attempts["1"] = 1
    /\ diskCheckpoint.attempts["1"] = 3
    /\ pc = "exec"
    /\ taskId = "1"
    /\ checkpoint.attempts["1"] = 4

\* C13: checkpoint writes are atomic: a crash at any point of a write leaves
\* checkpoint.json holding the complete previous checkpoint or the complete new
\* one, never a partial or empty file.
C13_AtomicCheckpointWrite ==
    pc = "crashed" => checkpointFile # "partial"

\* C14: when the loop ends (getNext returned no task, or maxTasks is set and
\* reached) run returns all_complete if blockedTaskIds is empty and partial
\* otherwise; error is returned only by the early return after a failed attempt.
C14_FinalStatus ==
    pc = "returned" =>
        IF nextTask = Null
        THEN /\ result[1].finalStatus =
                   IF checkpoint.blockedTaskIds = <<>> THEN "all_complete" ELSE "partial"
             /\ result[1].blockedTaskIds = checkpoint.blockedTaskIds
             /\ result[1].errorMessage = Null
        ELSE /\ result[1].finalStatus = "error"
             /\ ~outcome.success
             /\ ~options.continueOnFailure

\* C14 witness: the loop ended on maxTasks with a task still on offer, and run
\* returned partial
C14_Witness ==
    /\ pc = "returned"
    /\ nextTask = Null
    /\ options.maxTasks # 0
    /\ totalRuns = options.maxTasks
    /\ getNextPolicy = "eligible"
    /\ Eligible # {}
    /\ result[1].finalStatus = "partial"

\* C15: when a task-store call (getNext, updateStatus, list) fails, the failure
\* is surfaced, the in-memory checkpoint is persisted and run ends with final
\* status error (a rejected promise is taken as ending with an error).
C15_StoreFailurePersists ==
    (thrown # Null /\ thrown[1][1] = "store") =>
        /\ pc = "rejected"
        /\ diskCheckpoint = checkpoint
        /\ result # Null => result[1].finalStatus = "error"

\* C16: an exception thrown by an observer callback is swallowed: the run is
\* not aborted by it.
C16_CallbackSwallowed ==
    (thrown # Null /\ thrown[1][1] = "callback") => pc \notin {"rejected", "crashed"}

\* what run was given to set up: an agent-context file initAssets rejects, and
\* a checkpoint.json that JSON.parse rejects
BadAgentsFile ==
    /\ assets.calls # <<>>
    /\ LET file == assets.calls[1].before[resolvePaths.agentsPath]
       IN /\ file # Null
          /\ \/ includes(file[1], AGENTS_MARK_START) # includes(file[1], AGENTS_MARK_END)
             \/ /\ ~includes(file[1], AGENTS_MARK_START)
                /\ ~includes(file[1], AGENTS_MARK_END)
                /\ assets.options.agentsMode = Some("fail")

\* C17: run launches no executor and writes no task status before initAssets
\* and loadCheckpoint have both succeeded. With corrupt hook markers, or the
\* hook missing under agentsMode=fail, or a checkpoint.json that is not valid
\* JSON, run fails: it rejects without an attempt, a status write, a ledger
\* line or a result; and a checkpoint.json that does not parse is never
\* overwritten, nor is the run continued from an empty checkpoint.
C17_SetupGate ==
    /\ [](pc \in {"initAssets", "loadCheckpoint", "rejected"} =>
            totalRuns = 0 /\ statusWrites = <<>> /\ ledger = <<>> /\ result = NoResult)
    /\ [](pc \notin {"initAssets", "loadCheckpoint", "rejected"} =>
            /\ thrown = Null
            /\ Len(assets.calls) = 1 /\ assets.calls[1].result.error = Null
            /\ checkpointFile # "partial")
    /\ [](BadAgentsFile => pc = "rejected" /\ thrown # Null /\ thrown[1][1] = "setup")
    /\ [](pc = "rejected" => BadAgentsFile \/ checkpointFile = "partial")
    /\ [][checkpointFile = "partial" =>
            /\ checkpointFile' = "partial"
            /\ diskCheckpoint' = diskCheckpoint
            /\ pc' \in {"initAssets", "loadCheckpoint", "rejected"}]_vars

\* run has rejected in loadCheckpoint, after an initAssets that succeeded
C17_Witness ==
    /\ pc = "rejected"
    /\ thrown = Some(<<"setup", "checkpoint.json is not valid JSON">>)
    /\ checkpointFile = "partial"
    /\ diskCheckpoint.doneTaskIds = <<"1">>
    /\ assets.calls[1].result.error = Null
    /\ totalRuns = 0 /\ statusWrites = <<>>

\* C20: one agent subprocess at a time. The executor is launched from the top
\* of the loop only, and when it is launched for an attempt no outcome is
\* pending and every earlier attempt of the run is finished: its two status
\* writes are issued, its ledger line is appended, the checkpoint on disk holds
\* everything but the attempt now starting, and the plan was written from that
\* checkpoint.
C20_OneAttemptAtATime ==
    /\ [](pc = "exec" =>
            /\ execResult = NoExecResult
            /\ Len(ledger) = totalRuns
            /\ Len(statusWrites) = 2 * totalRuns + 1
            /\ diskCheckpoint = [checkpoint EXCEPT
                                    !.attempts[taskId] = @ - 1,
                                    !.lastTaskId = diskCheckpoint.lastTaskId]
            /\ \E st \in {"pending", "in-progress", "done", "blocked"} :
                  plan = projectPlan(storeTasks, [taskStatus EXCEPT ![taskId] = st],
                                     diskCheckpoint))
    /\ [][pc' = "exec" => pc = "getNext"]_vars

\* the third attempt of a run is being launched
C20_Witness ==
    /\ pc = "exec"
    /\ totalRuns = 2
    /\ Len(ledger) = 2
    /\ diskCheckpoint.attempts[taskId] = 1
    /\ checkpoint.attempts[taskId] = 2

\* C25: the files of a project that held no plan, template or task map before
\* run. In lite mode, once run has synchronised, the plan is <root>/TODO.csv
\* with the lite header, and SPEC.md, PROGRESS.md, the task map and a plan in
\* the session directory are never created, by initAssets or by run. In full
\* mode (mode full, auto or unset) initAssets writes SPEC.md and PROGRESS.md
\* and run writes the plan with the full header and the task map into the
\* session directory, and no plan at the root.
C25_ModeLayout ==
    LET files == projectFiles
        lite == assets.options.mode = Some("lite")
        inSession(name) == files[".codex-tasks/taskmaster-longrun/" \o name]
        initialised == assets.calls # <<>> /\ assets.calls[1].result.error = Null
        synced == pc \in {"getNext", "exec", "status", "ledger", "returned"}
    IN /\ lite =>
            /\ inSession("SPEC.md") = Null /\ inSession("PROGRESS.md") = Null
            /\ inSession("taskmaster-map.json") = Null /\ inSession("TODO.csv") = Null
            /\ synced =>
                  /\ files["TODO.csv"] # Null
                  /\ files["TODO.csv"][1].header = "id,task,status,completed_at,notes"
                  /\ DOMAIN files["TODO.csv"][1].rows = storeTasks
       /\ ~lite =>
            /\ files["TODO.csv"] = Null
            /\ initialised => inSession("SPEC.md") # Null /\ inSession("PROGRESS.md") # Null
            /\ synced =>
                  /\ inSession("taskmaster-map.json") # Null
                  /\ inSession("TODO.csv") # Null
                  /\ inSession("TODO.csv")[1].header =
                       "id,task,status,acceptance_criteria,validation_command,completed_at,retry_count,notes"
                  /\ DOMAIN inSession("TODO.csv")[1].rows = storeTasks

\* a run in lite mode has returned after an attempt that blocked its task
C25_Witness ==
    /\ assets.options.mode = Some("lite")
    /\ pc = "returned"
    /\ totalRuns = 1
    /\ checkpoint.blockedTaskIds # <<>>
    /\ projectFiles["TODO.csv"] # Null
    /\ \E t \in storeTasks : projectFiles["TODO.csv"][1].rows[t].notes = "blocked by retry limit"
    /\ projectFiles[".codex-tasks/taskmaster-longrun/SPEC.md"] = Null

(* ------------------------------------------------------------------ *)
(* SpecPlan: the plan row of one task, for every status of the store   *)
(* and every membership of its id in the checkpoint's lists            *)
(* ------------------------------------------------------------------ *)

\* TaskStatus of the task store; "" stands for a task without a status
TaskStatuses ==
    {"", "pending", "in-progress", "done", "completed", "review", "blocked",
     "cancelled", "deferred"}

\* the id lists of a checkpoint: the task or the other one, in any order
IdLists == {<<>>, <<"1">>, <<"2">>, <<"1", "2">>, <<"2", "1">>}

InitPlan ==
    /\ RunIdle
    /\ pf \in {[fn |-> "toCsvRow", out |-> Null,
                arg |-> Some([status |-> s, taskId |-> t,
                              checkpoint |-> [EmptyCheckpoint EXCEPT !.doneTaskIds = d,
                                                                     !.blockedTaskIds = b]])] :
                 s \in TaskStatuses, t \in Tasks, d \in IdLists, b \in IdLists}
    /\ ex = ExIdle
    /\ assets = AssetsIdle

\* toCsvRow(task, taskId, checkpoint), and the row renderLiteCsv makes of it
ApplyPlan ==
    /\ pf.fn = "toCsvRow"
    /\ pf.out = Null
    /\ LET a == pf.arg[1]
           row == toCsvRow(IF a.status = "" THEN "pending" ELSE a.status,
                           a.taskId, a.checkpoint)
       IN pf' = [pf EXCEPT !.out =
                    Some([full |-> row,
                          lite |-> renderLiteCsv([t \in {a.taskId} |-> row]).rows[a.taskId]])]
    /\ UNCHANGED <<runVars, ex, assets>>

SpecPlan == InitPlan /\ [][ApplyPlan]_vars

(* ------------------------------------------------------------------ *)
(* Properties of resolveExecutionOutcome                               *)
(* ------------------------------------------------------------------ *)

\* C2: the decision table of resolveExecutionOutcome over (parsedResult,
\* timedOut, exitCode): parsed done with validation other than fail succeeds,
\* any other parsed result fails; without a parsed result a timeout fails
\* whatever the exit code, else exit code 0 succeeds and anything else fails;
\* a parsed done/pass wins over a non-zero exit code.
C2_DecisionTable ==
    (pf.fn = "resolveExecutionOutcome" /\ pf.out # Null) =>
       LET r == pf.arg[1]
           success == pf.out[1].success
           hasParsed == r.parsedResult # Null
           good == hasParsed /\ r.parsedResult[1].status = "done"
                             /\ r.parsedResult[1].validation # "fail"
       IN /\ good => success
          /\ (hasParsed /\ ~good) => ~success
          /\ (~hasParsed /\ r.timedOut) => ~success
          /\ (~hasParsed /\ ~r.timedOut /\ r.exitCode = Some(0)) => success
          /\ (~hasParsed /\ ~r.timedOut /\ r.exitCode # Some(0)) => ~success
          /\ (hasParsed /\ r.parsedResult[1].status = "done"
                /\ r.parsedResult[1].validation = "pass" /\ r.exitCode # Some(0))
             => success

\* C2 witness: a parsed done/pass result resolved as success beside exit code 1
C2_Witness ==
    /\ pf.fn = "resolveExecutionOutcome"
    /\ pf.out # Null
    /\ pf.arg[1].parsedResult # Null
    /\ pf.arg[1].parsedResult[1].status = "done"
    /\ pf.arg[1].parsedResult[1].validation = "pass"
    /\ pf.arg[1].exitCode = Some(1)
    /\ pf.out[1].success

(* ------------------------------------------------------------------ *)
(* Properties of extractTaskResult                                     *)
(* ------------------------------------------------------------------ *)

\* the text a prefix occurrence at index i of a line is followed by, from its
\* first { to its last } (empty when there is no such span)
SpanAfter(line, i) ==
    LET payload == SubSeq(line, i + 1, Len(line))
        a == indexOf(payload, "{")
        b == lastIndexOf(payload, "}")
    IN IF a = 0 \/ b = 0 \/ b < a THEN <<>> ELSE SubSeq(payload, a, b)

\* the span is a parseable JSON object whose lowercased status is done or failed
ValidStatusObject(span) ==
    /\ span # <<>>
    /\ jsonParses(span)
    /\ member(span, "status").type = "string"
    /\ toLowerCase(member(span, "status").v) \in {"done", "failed"}

\* the first index of a line at which one of the words occurs, 0 if none
FirstOf(line, words) ==
    LET at == {i \in 1..Len(line) : line[i].t \in words}
    IN IF at = {} THEN 0 ELSE MinOf(at)

\* a line as C9 words it: it contains the literal RESULT: (alone or as the tail
\* of TM_RESULT:) followed by a parseable JSON object with a valid status
C9_SentinelLine(line) ==
    /\ FirstOf(line, {"RESULT:", "TM_RESULT:"}) # 0
    /\ ValidStatusObject(SpanAfter(line, FirstOf(line, {"RESULT:", "TM_RESULT:"})))

\* C9: extract returns a result iff some line contains RESULT: followed by a
\* parseable JSON object whose lowercased status is done or failed, and the
\* result comes from the last such line.
C9_ExtractIffSentinel ==
    (pf.fn = "extractTaskResult" /\ pf.out # Null) =>
       LET lines == SplitLines(pf.arg[1])
           valid == {k \in 1..Len(lines) : C9_SentinelLine(lines[k])}
           res == pf.out[1]
       IN /\ res # Null <=> valid # {}
          /\ res # Null =>
                 LET last == lines[MaxOf(valid)]
                     span == SpanAfter(last, FirstOf(last, {"RESULT:", "TM_RESULT:"}))
                 IN /\ res[1].raw = span
                    /\ res[1].status = toLowerCase(member(span, "status").v)

\* a line carrying the program's sentinel prefix and a valid status
C10_SentinelLine(line) ==
    /\ FirstOf(line, {RESULT_PREFIX}) # 0
    /\ ValidStatusObject(SpanAfter(line, FirstOf(line, {RESULT_PREFIX})))

\* validation as the claim coerces it
C10_Coerced(value) ==
    IF value.type = "string" /\ toLowerCase(value.v) \in {"pass", "fail", "unknown"}
    THEN toLowerCase(value.v) ELSE "unknown"

\* C10: every result has validation in {pass, fail, unknown}, and a sentinel
\* line with a valid status yields a result whatever its validation member is
\* (absent, or a value of any JSON type outside the allowed set), with
\* validation coerced to unknown.
C10_ValidationCoerced ==
    (pf.fn = "extractTaskResult" /\ pf.out # Null) =>
       LET lines == SplitLines(pf.arg[1])
           valid == {k \in 1..Len(lines) : C10_SentinelLine(lines[k])}
           res == pf.out[1]
       IN /\ res # Null => res[1].validation \in {"pass", "fail", "unknown"}
          /\ valid # {} =>
                 LET last == lines[MaxOf(valid)]
                     span == SpanAfter(last, FirstOf(last, {RESULT_PREFIX}))
                 IN /\ res # Null
                    /\ res[1].raw = span
                    /\ res[1].validation = C10_Coerced(member(span, "validation"))

(* ------------------------------------------------------------------ *)
(* Properties of executeCodex                                          *)
(* ------------------------------------------------------------------ *)

\* C6: once SIGTERM has been issued, if the process has still not exited when
\* the 5 second grace expires, SIGKILL is issued and the force-kill marker is
\* written to the log.
C6_ForceKillAfterGrace ==
    ex.graceExpired =>
        /\ "SIGKILL" \in Range(ex.signals)
        /\ "runner-force-kill" \in Range(ex.log)

(* ------------------------------------------------------------------ *)
(* Properties of initAssets                                            *)
(* ------------------------------------------------------------------ *)

HookBlock ==
    <<AGENTS_MARK_START, NL, Tok("## Taskmaster Longrun Hook"), NL, AGENTS_MARK_END>>

\* the calls made so far, with the agent-context file before and after each
AgentsCalls ==
    {[before |-> assets.calls[i].before[resolvePaths.agentsPath],
      after |-> assets.calls[i].result.files[resolvePaths.agentsPath],
      error |-> assets.calls[i].result.error] : i \in 1..Len(assets.calls)}

MarkersIn(file) ==
    IF file = Null THEN {}
    ELSE {m \in {AGENTS_MARK_START, AGENTS_MARK_END} : includes(file[1], m)}

\* C18: what initAssets does with the agent-context file. Missing: the file is
\* created and holds the hook block and nothing else. Both markers present: the
\* file is left as it is. Exactly one marker: the call fails with the markers
\* error whatever agentsMode is, the file untouched. No marker: append (also the
\* default) keeps the text and adds a blank line and the block; skip leaves the
\* file as it is; fail raises the hook-missing error and leaves the file as it is.
C18_AgentsHookCases ==
    \A c \in AgentsCalls :
        LET mode == assets.options.agentsMode
            markers == Cardinality(MarkersIn(c.before))
        IN /\ c.before = Null =>
                c.error = Null /\ c.after = Some(HookBlock \o <<NL>>)
           /\ (c.before # Null /\ markers = 2) =>
                c.error = Null /\ c.after = c.before
           /\ (c.before # Null /\ markers = 1) =>
                c.error = Some("Invalid AGENTS hook markers") /\ c.after = c.before
           /\ (c.before # Null /\ markers = 0 /\ mode \in {Null, Some("append")}) =>
                /\ c.error = Null
                /\ \E kept \in 0..Len(c.before[1]) :
                      /\ \A i \in (kept + 1)..Len(c.before[1]) : c.before[1][i] = NL
                      /\ c.after = Some(SubSeq(c.before[1], 1, kept) \o <<NL, NL>>
                                        \o HookBlock \o <<NL>>)
           /\ (c.before # Null /\ markers = 0 /\ mode = Some("skip")) =>
                c.error = Null /\ c.after = c.before
           /\ (c.before # Null /\ markers = 0 /\ mode = Some("fail")) =>
                c.error = Some("AGENTS hook missing") /\ c.after = c.before

\* a hook appended to a text of the project's own, then found by the second call
C18_Witness ==
    /\ Len(assets.calls) = 2
    /\ assets.options.agentsMode = Null
    /\ assets.calls[1].before[resolvePaths.agentsPath] # Null
    /\ MarkersIn(assets.calls[1].before[resolvePaths.agentsPath]) = {}
    /\ assets.calls[1].result.updated = <<resolvePaths.agentsPath>>
    /\ assets.calls[2].result.files[resolvePaths.agentsPath]
         = assets.calls[1].result.files[resolvePaths.agentsPath]
    /\ resolvePaths.agentsPath \in Range(assets.calls[2].result.skipped)

\* the number of times tok occurs in a file
Occurrences(file, tok) ==
    IF file = Null THEN 0
    ELSE Cardinality({i \in 1..Len(file[1]) : file[1][i] = tok})

\* the first two calls were made on a clean project and neither threw
CleanProjectTwice ==
    /\ Len(assets.calls) >= 2
    /\ \A p \in DOMAIN assets.calls[1].before : assets.calls[1].before[p] = Null
    /\ assets.calls[1].result.error = Null
    /\ assets.calls[2].result.error = Null

C19_OneOfEach ==
    CleanProjectTwice =>
        LET after == assets.calls[2].result.files
        IN /\ Occurrences(after[resolvePaths.agentsPath], AGENTS_MARK_START) = 1
           /\ Occurrences(after[resolvePaths.agentsPath], AGENTS_MARK_END) = 1
           /\ Occurrences(after[resolvePaths.skillPath], SKILL_INTEGRATION_MARK_START) = 1
           /\ Occurrences(after[resolvePaths.skillPath], SKILL_INTEGRATION_MARK_END) = 1
           /\ Occurrences(after[resolvePaths.gitignore], Tok("*")) = 1
           /\ Occurrences(after[resolvePaths.gitignore], Tok("!.gitignore")) = 1

\* C19: initAssets run twice on a clean project leaves exactly one hook block in
\* the agent-context file, exactly one integration addendum in the skill file
\* and each entry of .codex-tasks/.gitignore once, and every file holds after
\* the second call what it held after the first.
C19_InitTwiceSameFiles ==
    /\ C19_OneOfEach
    /\ CleanProjectTwice => assets.calls[2].result.files = assets.calls[1].result.files

\* the step is the callback of the named timer
Fires(timer) == ex[timer] = "armed" /\ ex'[timer] = "fired"

\* termination was initiated by this step, or before it, or the child had exited
TerminationUnderWay(e) ==
    e.killed \/ e.exitCode # Null \/ e.signalCode # Null

NonPositive(value) == value # Null /\ value[1].kind = "finite" /\ value[1].n <= 0

\* C21: the idle timer is armed again on every chunk of stdout or stderr. It
\* fires only when idleTimeoutMs have passed since the last chunk (or since the
\* spawn), and then the attempt is marked idle-timed-out and termination is
\* initiated; nothing else marks an idle timeout. With a configured idle
\* timeout of 0 or less the timer is never armed and no idle timeout is marked.
C21_IdleTimer ==
    /\ [][(ex'.chunks = ex.chunks + 1 /\ ex.idleTimeoutMs # Null) =>
              /\ ex'.idleTimer = "armed"
              /\ ex'.idleDue = Some(ex.now[1] + ex.idleTimeoutMs[1])]_vars
    /\ [][Fires("idleTimer") =>
              /\ ex.now[1] = ex.lastActivityAt[1] + ex.idleTimeoutMs[1]
              /\ ex'.timedOut /\ ex'.timeoutKind = Some("idle")
              /\ ex'.timeoutMs = ex.idleTimeoutMs
              /\ TerminationUnderWay(ex')]_vars
    /\ [][(ex'.timeoutKind = Some("idle") /\ ex.timeoutKind # Some("idle")) =>
              Fires("idleTimer")]_vars
    /\ [](NonPositive(ex.options.execIdleTimeoutMs) =>
              ex.idleTimer = "null" /\ ex.timeoutKind # Some("idle"))

\* a chunk came half a second after the spawn; the idle timeout of 1200 ms was
\* marked 1200 ms after the chunk
C21_Witness ==
    /\ ex.idleTimeoutMs = Some(1200)
    /\ ex.chunks = 1
    /\ ex.lastActivityAt = Some(500)
    /\ ex.idleTimer = "fired"
    /\ ex.now = Some(1700)
    /\ ex.timeoutKind = Some("idle")
    /\ "SIGTERM" \in Range(ex.signals)

\* C22: an enabled hard timeout is due hardTimeoutMs after the spawn and output
\* never moves it: a process that has not closed by then is marked
\* hard-timed-out and termination is initiated. With no hard timeout
\* configured, or one of 0 or less, the timer is never armed and no hard
\* timeout is marked.
C22_HardTimer ==
    /\ [](ex.hardTimer = "armed" => ex.hardDue = ex.hardTimeoutMs)
    /\ [][Fires("hardTimer") =>
              /\ ex.now = ex.hardTimeoutMs
              /\ ex.child \in {"running", "exited"}
              /\ ex'.timedOut /\ ex'.timeoutKind = Some("hard")
              /\ ex'.timeoutMs = ex.hardTimeoutMs
              /\ TerminationUnderWay(ex')]_vars
    /\ []((ex.hardTimeoutMs # Null /\ ex.child \in {"running", "exited"}
             /\ ex.now[1] > ex.hardTimeoutMs[1]) =>
              ex.hardTimer = "fired" /\ ex.timedOut)
    /\ []((ex.options.execHardTimeoutMs = Null \/ NonPositive(ex.options.execHardTimeoutMs)) =>
              ex.hardTimer = "null" /\ ex.timeoutKind # Some("hard"))

\* two chunks came, the second a second after the spawn; the hard timeout of
\* 2500 ms was marked 2500 ms after the spawn
C22_Witness ==
    /\ ex.hardTimeoutMs = Some(2500)
    /\ ex.chunks = 2
    /\ ex.lastActivityAt = Some(1000)
    /\ ex.hardTimer = "fired"
    /\ ex.now = Some(2500)
    /\ ex.timeoutKind = Some("hard")
    /\ "SIGTERM" \in Range(ex.signals)

\* C23: when the sentinel is first parsed and terminateOnResult is true or
\* unset, termination is scheduled RESULT_TERMINATE_GRACE_MS later: at that
\* moment SIGTERM is sent with the marker of the reason, unless the process has
\* exited or is being terminated already. With terminateOnResult false nothing
\* is scheduled and no termination is ever initiated for a result.
C23_ResultGrace ==
    /\ [][(ex.parsedResult = Null /\ ex'.parsedResult # Null) =>
              IF ex.options.terminateOnResult \in {Null, Some(TRUE)}
              THEN /\ ex'.resultTimer = "armed"
                   /\ ex'.resultDue = Some(ex.now[1] + RESULT_TERMINATE_GRACE_MS)
              ELSE ex'.resultTimer = "null"]_vars
    /\ [][Fires("resultTimer") =>
              /\ ex.now[1] = ex.detectedAt[1] + RESULT_TERMINATE_GRACE_MS
              /\ IF TerminationUnderWay(ex)
                 THEN ex'.signals = ex.signals /\ ex'.log = ex.log
                 ELSE /\ ex'.signals = Append(ex.signals, "SIGTERM")
                      /\ ex'.log = Append(ex.log, "runner-result-received")]_vars
    /\ [](ex.options.terminateOnResult = Some(FALSE) =>
              ex.resultTimer = "null" /\ "runner-result-received" \notin Range(ex.log))

\* the result was parsed half a second after the spawn and the child, still
\* running, was sent SIGTERM 1500 ms later
C23_Witness ==
    /\ ex.detectedAt = Some(500)
    /\ ex.resultTimer = "fired"
    /\ ex.now = Some(2000)
    /\ ex.signals = <<"SIGTERM">>
    /\ Range(ex.log) = {"runner-result-detected", "runner-result-received"}

\* the timer a configured value stands for: Null is a disabled timer
C24_Resolved(value, default) ==
    IF value = Null \/ value[1].kind # "finite" THEN default
    ELSE IF value[1].n <= 0 THEN Null
    ELSE LET whole == value[1].n \div value[1].d
         IN Some(IF whole < 1000 THEN 1000 ELSE whole)

\* C24: a finite value of 0 or less disables the timer; a finite value above 0
\* gives max(1000, trunc(v)) milliseconds; an absent or non-finite value gives
\* the default, 20 minutes for the idle timer and no timer for the hard one;
\* execTimeoutMs is read only when execHardTimeoutMs is absent.
C24_TimeoutResolution ==
    (pf.fn = "resolveTimeouts" /\ pf.out # Null) =>
        LET o == pf.arg[1]
        IN /\ pf.out[1].idleTimeoutMs = C24_Resolved(o.execIdleTimeoutMs, Some(20 * 60 * 1000))
           /\ pf.out[1].hardTimeoutMs =
                 C24_Resolved(IF o.execHardTimeoutMs = Null THEN o.execTimeoutMs
                              ELSE o.execHardTimeoutMs, Null)

\* 0.5 ms of idle timeout became one second, execHardTimeoutMs = 0 disabled the
\* hard timer although its alias asked for 1500.5 ms
C24_Witness ==
    /\ pf.fn = "resolveTimeouts" /\ pf.out # Null
    /\ pf.arg[1].execIdleTimeoutMs = Some(Finite(1, 2))
    /\ pf.arg[1].execHardTimeoutMs = Some(Finite(0, 1))
    /\ pf.arg[1].execTimeoutMs = Some(Finite(3001, 2))
    /\ pf.out[1] = [idleTimeoutMs |-> Some(1000), hardTimeoutMs |-> Null]


(* ------------------------------------------------------------------ *)
(* Properties of the run loop's limits and status writes               *)
(* ------------------------------------------------------------------ *)

\* the executor invocations of this run so far: the ones that have resolved
\* (totalRuns++ follows each) and the one in flight
Invocations == totalRuns + (IF pc = "exec" THEN 1 ELSE 0)

\* C26: with maxTasks set to a positive count, the executor is never invoked
\* more than maxTasks times in one run; totalRuns counts the invocations, one
\* per attempt (one per ledger entry), and is what the result reports.
C26_MaxTasksBound ==
    /\ options.maxTasks > 0 => Invocations <= options.maxTasks
    /\ pc \in {"getNext", "returned"} => totalRuns = Len(ledger)
    /\ (pc = "returned" /\ result # Null) => result[1].totalRuns = totalRuns

\* a run with maxTasks 2 stopped by the limit after two attempts at one task,
\* which is still eligible
C26_Witness ==
    /\ pc = "returned"
    /\ options.maxTasks = 2
    /\ result # Null /\ result[1].totalRuns = 2
    /\ Len(ledger) = 2
    /\ ledger[1].taskId = ledger[2].taskId
    /\ Eligible # {}


\* the status writes issued so far for the attempt that is under way
WritesUnderWay ==
    IF pc \in {"exec", "status"} THEN 1
    ELSE IF pc = "ledger" THEN 2 ELSE 0

\* C27: every attempt issues exactly two status writes, both for its task:
\* in-progress before the executor is launched, then after it returned done
\* for a success, pending for a failure with retries left, blocked for a
\* failure that exhausted them; nothing else is ever written, and when run
\* returns no attempted task is in-progress.
C27_TwoStatusWrites ==
    /\ Len(statusWrites) = 2 * Len(ledger) + WritesUnderWay
    /\ \A i \in 1..Len(ledger) :
          /\ statusWrites[2 * i - 1] = <<ledger[i].taskId, "in-progress">>
          /\ statusWrites[2 * i] =
               <<ledger[i].taskId,
                 CASE ledger[i].status = "DONE" -> "done"
                   [] ledger[i].status = "FAILED" -> "pending"
                   [] ledger[i].status = "BLOCKED" -> "blocked">>
    /\ pc \in {"exec", "status"} =>
          /\ nextTask # Null
          /\ Last(statusWrites) = <<taskId, "in-progress">>
    /\ pc = "ledger" =>
          /\ statusWrites[Len(statusWrites) - 1] = <<taskId, "in-progress">>
          /\ Last(statusWrites)[1] = taskId
          /\ Last(statusWrites)[2] =
               IF outcome.success THEN "done"
               ELSE IF attempt > maxRetries THEN "blocked" ELSE "pending"
    /\ pc = "returned" =>
          \A i \in 1..Len(ledger) : taskStatus[ledger[i].taskId] # "in-progress"

\* a run returned after three attempts: one failed and was retried, one
\* succeeded, one exhausted its retries
C27_Witness ==
    /\ pc = "returned"
    /\ Len(statusWrites) = 6
    /\ {ledger[i].status : i \in 1..Len(ledger)} = {"DONE", "FAILED", "BLOCKED"}
    /\ {w[2] : w \in Range(statusWrites)} = {"in-progress", "done", "pending", "blocked"}


(* ------------------------------------------------------------------ *)
(* Properties of termination and close in executeCodex                 *)
(* ------------------------------------------------------------------ *)

\* the log markers terminateChild writes when it passes its guard; each comes
\* with one SIGTERM and one force-kill timer
TerminationMarkers == {"runner-idle-timeout", "runner-hard-timeout", "runner-result-received"}

Terminations(e) == Cardinality({i \in 1..Len(e.log) : e.log[i] \in TerminationMarkers})

\* C28: in one attempt, whichever of the idle timer, the hard timer and the
\* result grace fire and in whatever order, terminateChild passes its guard at
\* most once (one SIGTERM, one force-kill timer armed), SIGKILL is issued at
\* most once and only after a SIGTERM, and once the process has exited a
\* termination request sends nothing and arms nothing.
C28_TerminationIdempotent ==
    /\ [](/\ Terminations(ex) <= 1
          /\ Count(ex.signals, "SIGTERM") <= 1
          /\ ex.leakedCloseTimers = 0
          /\ Count(ex.signals, "SIGKILL") <= 1
          /\ \A i \in 1..Len(ex.signals) :
                ex.signals[i] = "SIGKILL" => \E j \in 1..(i - 1) : ex.signals[j] = "SIGTERM")
    /\ [][(ex.exitCode # Null \/ ex.signalCode # Null) =>
             /\ ex'.signals = ex.signals
             /\ Terminations(ex') = Terminations(ex)
             /\ ex'.closeTimer = "armed" => ex.closeTimer = "armed"]_vars


\* the timers of the attempt that are still pending
PendingTimers(e) ==
    {t \in {"idleTimer", "hardTimer", "resultTimer", "closeTimer"} : e[t] = "armed"}

\* C29: when the process closes, the idle, hard, result-grace and force-kill
\* timers are all cleared and the attempt resolves, once, with the outcome
\* collected up to then; after close no timer callback runs, no timeout is
\* marked and no signal is sent.
C29_CloseClearsTimers ==
    /\ [](ex.child = "closed" =>
             /\ PendingTimers(ex) = {}
             /\ ex.leakedCloseTimers = 0
             /\ ex.resolved = Some([exitCode |-> ex.exitCode, signal |-> ex.signalCode,
                                    timedOut |-> ex.timedOut, timeoutMs |-> ex.timeoutMs,
                                    timeoutKind |-> ex.timeoutKind,
                                    parsedResult |-> ex.parsedResult]))
    /\ [][ex.resolved # Null => ex'.resolved = ex.resolved]_vars
    /\ [][ex.child = "closed" => ex' = ex]_vars


\* C30: within one attempt the first result parsed from the output is kept:
\* parsedResult never changes once set, whatever output arrives later, the
\* result-detected marker is written exactly once, with it, and the
\* result-grace termination is scheduled only then, so at most once.
C30_ResultLatched ==
    /\ [][ex.parsedResult # Null => ex'.parsedResult = ex.parsedResult]_vars
    /\ [](Count(ex.log, "runner-result-detected") = IF ex.parsedResult = Null THEN 0 ELSE 1)
    /\ [](ex.parsedResult = Null => ex.resultTimer = "null")
    /\ [][ex'.resultTimer = "armed" =>
             ex.resultTimer = "armed" \/ (ex.parsedResult = Null /\ ex'.parsedResult # Null)]_vars
    /\ [](ex.resolved # Null => ex.resolved[1].parsedResult = ex.parsedResult)

\* a result was parsed from the first chunk and a later chunk brought a
\* different result line, which the buffer now ends with
C30_Witness ==
    /\ ex.chunks = 2
    /\ ex.parsedResult # Null
    /\ extractTaskResult(ex.outputBuffer) # Null
    /\ extractTaskResult(ex.outputBuffer) # ex.parsedResult
    /\ Count(ex.log, "runner-result-detected") = 1


(* ------------------------------------------------------------------ *)
(* Properties of the ledger, the checkpoint and the plan               *)
(* ------------------------------------------------------------------ *)

\* C31: the ledger only grows at its end: every executor invocation appends
\* one entry, of status DONE, FAILED or BLOCKED and with the attempt number the
\* task has after the increment; no entry is changed or removed, so the ledger
\* has one entry per counted invocation, in the order the attempts completed.
C31_LedgerAppendOnly ==
    /\ [][\/ ledger' = ledger
          \/ /\ Len(ledger') = Len(ledger) + 1
             /\ SubSeq(ledger', 1, Len(ledger)) = ledger
             /\ Last(ledger').taskId = taskId
             /\ Last(ledger').attempt = checkpoint.attempts[taskId]
             /\ Last(ledger').status \in {"DONE", "FAILED", "BLOCKED"}
             /\ Len(ledger') = totalRuns]_vars
    /\ [][totalRuns' # totalRuns =>
             /\ totalRuns' = totalRuns + 1
             /\ Len(ledger) = totalRuns]_vars
    /\ [](Len(ledger) = totalRuns - (IF pc \in {"status", "ledger"} THEN 1 ELSE 0))
    /\ [](\A i, j \in 1..Len(ledger) :
             (i < j /\ ledger[i].taskId = ledger[j].taskId) =>
                 ledger[i].attempt < ledger[j].attempt)

\* three attempts are in the ledger, the first failed and the last is a later
\* attempt at the same task
C31_Witness ==
    /\ Len(ledger) = 3 /\ totalRuns = 3
    /\ ledger[1].status = "FAILED"
    /\ ledger[3].taskId = ledger[1].taskId
    /\ ledger[3].attempt = ledger[1].attempt + 1
    /\ ledger[2].taskId # ledger[1].taskId


\* C32: after every attempt, when the loop asks for the next task and when run
\* returns (after the loop or by the early return of a failed attempt),
\* checkpoint.json holds the in-memory checkpoint (attempts, doneTaskIds,
\* blockedTaskIds, lastTaskId) and the plan is the projection of that
\* checkpoint and of the store.
C32_PersistedAfterTransition ==
    ((pc = "getNext" /\ totalRuns > 0) \/ pc = "returned") =>
        /\ checkpointFile = "complete"
        /\ diskCheckpoint = checkpoint
        /\ plan = projectPlan(storeTasks, taskStatus, diskCheckpoint)

\* the loop is about to ask again after a second attempt that blocked a task,
\* with both attempts on disk
C32_Witness ==
    /\ pc = "getNext"
    /\ totalRuns = 2
    /\ Last(ledger).status = "BLOCKED"
    /\ diskCheckpoint.attempts[Last(ledger).taskId] = Last(ledger).attempt
    /\ diskCheckpoint.blockedTaskIds # loaded.blockedTaskIds
    /\ diskCheckpoint.lastTaskId = Some(Last(ledger).taskId)
    /\ plan[Last(ledger).taskId].status = "FAILED"


\* C33: the status of a plan row is the first that applies of: id in
\* doneTaskIds, DONE; id in blockedTaskIds, FAILED; store status done or
\* completed, DONE; in-progress, IN_PROGRESS; blocked, cancelled or deferred,
\* FAILED; anything else, TODO. The lite row is DONE exactly when that status
\* is DONE and TODO otherwise; notes is "blocked by retry limit" exactly when
\* the id is in blockedTaskIds.
C33_PlanProjection ==
    (pf.fn = "toCsvRow" /\ pf.out # Null) =>
        LET a == pf.arg[1]
            done == \E i \in 1..Len(a.checkpoint.doneTaskIds) :
                       a.checkpoint.doneTaskIds[i] = a.taskId
            blocked == \E i \in 1..Len(a.checkpoint.blockedTaskIds) :
                          a.checkpoint.blockedTaskIds[i] = a.taskId
            expected == CASE done -> "DONE"
                          [] ~done /\ blocked -> "FAILED"
                          [] ~done /\ ~blocked /\ a.status \in {"done", "completed"} -> "DONE"
                          [] ~done /\ ~blocked /\ a.status = "in-progress" -> "IN_PROGRESS"
                          [] ~done /\ ~blocked
                               /\ a.status \in {"blocked", "cancelled", "deferred"} -> "FAILED"
                          [] OTHER -> "TODO"
        IN /\ pf.out[1].full.status = expected
           /\ pf.out[1].lite.status = (IF expected = "DONE" THEN "DONE" ELSE "TODO")
           /\ pf.out[1].full.notes = "blocked by retry limit" <=> blocked
           /\ pf.out[1].lite.notes = "blocked by retry limit" <=> blocked
           /\ ~blocked => pf.out[1].full.notes = "" /\ pf.out[1].lite.notes = ""

\* a task the store calls in-progress, whose id is in both lists of the
\* checkpoint: the row is DONE and still carries the note
C33_Witness ==
    /\ pf.fn = "toCsvRow" /\ pf.out # Null
    /\ pf.arg[1].status = "in-progress"
    /\ pf.arg[1].taskId = "2"
    /\ pf.arg[1].checkpoint.doneTaskIds = <<"1", "2">>
    /\ pf.arg[1].checkpoint.blockedTaskIds = <<"2">>
    /\ pf.out[1].full.status = "DONE"
    /\ pf.out[1].lite = [status |-> "DONE", notes |-> "blocked by retry limit"]


(* ------------------------------------------------------------------ *)
(* Properties of what executeCodex resolves with                       *)
(* ------------------------------------------------------------------ *)

\* C34: once termination was initiated in an attempt (by the idle timer, the
\* hard timer or the result grace), the attempt eventually resolves, whether
\* or not the process obeys SIGTERM (the process is one the runner may
\* signal).
C34_TerminationReaps ==
    (Terminations(ex) > 0 /\ ex.signalable) ~> (ex.resolved # Null)


\* C35: the timeout kind and bound of an attempt are those of the first timer
\* that fired: once a kind is marked, a later firing of the other timer changes
\* neither; timedOut holds exactly when a kind is marked, and the attempt
\* resolves with them.
C35_FirstTimeoutKept ==
    /\ [][ex.timeoutKind # Null =>
             ex'.timeoutKind = ex.timeoutKind /\ ex'.timeoutMs = ex.timeoutMs]_vars
    /\ [](ex.timedOut <=> ex.timeoutKind # Null)
    /\ [](ex.resolved # Null =>
             /\ ex.resolved[1].timeoutKind = ex.timeoutKind
             /\ ex.resolved[1].timeoutMs = ex.timeoutMs
             /\ ex.resolved[1].timedOut = ex.timedOut)


\* C36: the result an attempt resolves with is the one extractTaskResult finds
\* in the whole output of the attempt (its last valid result line), however
\* the output was cut into chunks. (The output of an attempt stays below
\* OUTPUT_BUFFER_MAX_CHARS here, so outputBuffer holds all of it.)
C36_ResultOfWholeOutput ==
    ex.resolved # Null =>
        /\ chars(ex.outputBuffer) < OUTPUT_BUFFER_MAX_CHARS
        /\ ex.resolved[1].parsedResult = extractTaskResult(ex.outputBuffer)


(* ------------------------------------------------------------------ *)
(* Properties of runs that follow one another                          *)
(* ------------------------------------------------------------------ *)

\* the log file of an attempt: <safeTaskId>-attempt-<attempt>.log
logFile(id, n) == <<id, n>>

\* C37: over the runs of one session directory, a crash and a restart from the
\* saved checkpoint included, no two ledger entries carry the same task id and
\* attempt number, and an attempt that is under way has a number, and so a
\* log file, that no logged attempt had.
C37_AttemptsUnique ==
    /\ \A i, j \in 1..Len(ledger) :
          (ledger[i].taskId = ledger[j].taskId /\ ledger[i].attempt = ledger[j].attempt)
             => i = j
    /\ pc = "exec" =>
          \A i \in 1..Len(ledger) :
             logFile(ledger[i].taskId, ledger[i].attempt) # logFile(taskId, attempt)


(* ------------------------------------------------------------------ *)
(* Properties of the way run ends                                      *)
(* ------------------------------------------------------------------ *)

\* run has returned all_complete, with a store that offers every task whose
\* status is pending or in-progress
ReturnedAllComplete ==
    /\ pc = "returned"
    /\ result[1].finalStatus = "all_complete"
    /\ getNextPolicy = "eligible"

\* nothing is left to run and every task this run attempted is done
NothingLeft ==
    /\ GetNextAnswers = {Null}
    /\ \A i \in 1..Len(ledger) : ledger[i].taskId \in Range(checkpoint.doneTaskIds)

C39_RunTerminates ==
    /\ <>(pc = "returned")
    /\ [](\A t \in storeTasks : checkpoint.attempts[t] <= EffectiveRetries + 1)
    /\ []((pc = "returned" /\ options.continueOnFailure) =>
             result[1].finalStatus \in {"all_complete", "partial"})

\* with continueOnFailure and no cap, one task was blocked on try
\* maxRetries+1 = 2, the other done, and run returned partial after 3 attempts
C39_Witness ==
    /\ pc = "returned"
    /\ options.continueOnFailure /\ options.maxTasks = 0
    /\ options.maxRetries = Some(1)
    /\ storeTasks = Tasks
    /\ totalRuns = 3
    /\ \E t \in Tasks : checkpoint.attempts[t] = 2 /\ t \in Range(checkpoint.blockedTaskIds)
    /\ result[1].finalStatus = "partial"


(* ------------------------------------------------------------------ *)
(* A repeated initAssets without remote fetching                       *)
(* ------------------------------------------------------------------ *)

\* the second call follows a call that did not throw, with fetching disabled
RepeatedOffline ==
    /\ Len(assets.calls) >= 2
    /\ assets.disableRemote
    /\ assets.calls[1].result.error = Null

\* C40: after a successful initAssets, an immediately repeated initAssets with
\* the same options and remote fetching disabled writes no file: created and
\* updated are empty, and the agent-context file, the skill file, the
\* skill-side agent file and, in full mode, SPEC.md and PROGRESS.md are all
\* reported in skipped.
C40_RepeatWritesNothing ==
    RepeatedOffline =>
        LET second == assets.calls[2].result
            full == resolveMode(assets.options.mode) = "full"
        IN /\ second.error = Null
           /\ second.created = <<>>
           /\ second.updated = <<>>
           /\ second.files = assets.calls[1].result.files
           /\ {resolvePaths.agentsPath, resolvePaths.skillPath,
               resolvePaths.skillAgentsPath} \subseteq Range(second.skipped)
           /\ full => {resolvePaths.specPath, resolvePaths.progressPath}
                          \subseteq Range(second.skipped)

====
